---------------------------- MODULE Spec2Model ----------------------------
(***************************************************************************)
(* open-sesame: the lifecycle state machine (src/src/app/state.rs) and the *)
(* hint engine it uses (src/src/core/hint.rs, src/src/core/matcher.rs).    *)
(*                                                                         *)
(* Conventions                                                             *)
(*   char        a Unicode scalar value, as an integer (ASCII 'f' = 102)   *)
(*   String      a sequence of chars                                       *)
(*   Option<T>   a sequence of length 0 (None) or 1 (Some(v))              *)
(*   Vec<T>      a sequence; Rust position i is TLA+ position i + 1, the   *)
(*               values stored in fields (index, selected_hint_index,      *)
(*               hint_index) are the Rust (0-based) numbers                *)
(*   enum        a record with a "tag" field                               *)
(***************************************************************************)
EXTENDS Integers, Sequences, FiniteSets, TLC

VARIABLES
    windows,             \* the enumerated windows handed to assign (main.rs:331)
    keyFor,              \* key_for_app: app id -> Option<char>
    hints,               \* HintAssignment.hints
    previous_window_id,  \* Option<window id>
    launcher_mode,       \* the flag given to AppState::initial
    config,              \* the Config read by handle_event
    state,               \* AppState
    actions,             \* Transition.actions of the last handle_event call
    event,               \* the kind of Event of the last handle_event call (Option)
    now,                 \* Instant::now(), in ticks of the model clock
    panicked,            \* the process aborted with a panic
    call,                \* harness for the pure functions: the call made
    ret,                 \* harness for the pure functions: Option<result>
    tracker,             \* a TimeoutTracker driven on its own (util/timeout.rs)
    lock_path,           \* the inode the lock file's path names (Option)
    inodes_made,         \* the number of lock files created so far
    flock_holder,        \* inode -> Option<process holding its exclusive flock>
    procs,               \* process -> its position in acquire/drop and its File
    mru_file,            \* the MRU file: None, or Some(its lines) (util/mru.rs)
    desktop,             \* the compositor: the open windows and the focused one
    session,             \* the last run of run_launcher (Option): its origin, its
                         \* target, and hints[0] if the stored previous was closed
    run,                 \* the main thread of the running instance: its position
                         \* in run_launcher and App::run, app.running, the result
    ipc,                 \* the IPC socket, its pending connections, the channel
    clients,             \* the other invocations: position, command, response
    hist,                \* what the state machine was fed and what was accepted
    feed                 \* what the run loop delivers: "any" event, or from some
                         \* point on only the "timed" ones (FrameCallback, Tick)
                         \* or only "ticks"

\* the variables of the InstanceLock of several processes (util/lock.rs)
lockVars == <<lock_path, inodes_made, flock_holder, procs>>

\* the variables of the components driven on their own
\* the variables of the runs of run_launcher over one MRU file (main.rs)
mruVars == <<mru_file, desktop, session>>

\* the variables of the running instance and of the invocations that signal it
\* (main.rs, app/mod.rs, util/ipc.rs)
loopVars == <<run, ipc, clients, hist>>

extVars == <<tracker, lockVars, mruVars, loopVars, feed>>

vars == <<windows, keyFor, hints, previous_window_id, launcher_mode, config,
          state, actions, event, now, panicked, call, ret, extVars>>

None == <<>>
Some(v) == <<v>>

Min(a, b) == IF a <= b THEN a ELSE b
Max(a, b) == IF a >= b THEN a ELSE b

-----------------------------------------------------------------------------
(* Bounds of the model *)

\* most windows and most keys of a drawn launcher session
MaxDrawWindows == 3
MaxDrawKeys == 2
\* other invocations of the program while one instance runs
MaxClients == 2
\* most Wayland events dispatched by one dispatch_pending
MaxBatch == 2

\* longest window list of the program runs
MaxWindows == 2
\* longest window list handed to assign by the function harness
MaxAssignWindows == 3
\* longest string handed to normalize_input / from_repeated / match_input
MaxInputLen == 3
\* longest hint list handed to match_input by the function harness
MaxHints == 2
\* largest repetition count of the hints of those lists, and of HintSequence::new
MaxCount == 2
\* largest len and current handed to cycle_index by the function harness
MaxCycleLen == 4
\* the model clock runs from 0 to MaxTime
MaxTime == 2
\* width in bits of the model's frame counter (u32 in the source; the width is
\* scaled down so that the counter's maximum is reached by FrameCallback events)
FrameBits == 2

-----------------------------------------------------------------------------
(* Characters and strings *)

\* char::is_ascii_digit
is_ascii_digit(c) == c >= 48 /\ c <= 57

\* char::is_ascii_alphabetic
is_ascii_alphabetic(c) == (c >= 65 /\ c <= 90) \/ (c >= 97 /\ c <= 122)

\* char::to_ascii_lowercase
to_ascii_lowercase(c) == IF c >= 65 /\ c <= 90 THEN c + 32 ELSE c

\* char lower-casing used by str::to_lowercase (Unicode): ASCII upper case, and
\* U+212A KELVIN SIGN whose lower case is 'k'; every other char of the model
\* has no lower-case mapping
char_to_lowercase(c) ==
    IF c >= 65 /\ c <= 90 THEN c + 32
    ELSE IF c = 8490 THEN 107
    ELSE c

\* str::to_lowercase
to_lowercase(s) == [i \in 1..Len(s) |-> char_to_lowercase(s[i])]

\* number of bytes of the UTF-8 encoding of one char
utf8_len(c) == IF c < 128 THEN 1 ELSE IF c < 2048 THEN 2 ELSE IF c < 65536 THEN 3 ELSE 4

\* str::len: the length in bytes
RECURSIVE str_len(_)
str_len(s) == IF s = <<>> THEN 0 ELSE utf8_len(Head(s)) + str_len(Tail(s))

\* str::repeat of a one-char string
repeat(c, n) == [i \in 1..n |-> c]

\* str::starts_with
starts_with(s, prefix) ==
    /\ Len(prefix) <= Len(s)
    /\ \A i \in 1..Len(prefix) : s[i] = prefix[i]

\* str::parse::<usize> of a string of ASCII digits (the model's strings are far
\* shorter than the 20 digits at which the parse overflows and fails)
RECURSIVE parse_usize(_)
parse_usize(ds) ==
    IF ds = <<>> THEN 0
    ELSE 10 * parse_usize(SubSeq(ds, 1, Len(ds) - 1)) + (ds[Len(ds)] - 48)

\* String::pop
pop(s) == IF s = <<>> THEN s ELSE SubSeq(s, 1, Len(s) - 1)

-----------------------------------------------------------------------------
(* HintSequence (core/hint.rs) *)

\* the cap on the number of a "letter + number" input
MaxRepeat == 26

\* HintSequence::new
HintSequence_new(base, count) ==
    [base |-> to_ascii_lowercase(base), count |-> Max(count, 1)]

\* HintSequence::as_string
as_string(h) == repeat(h.base, h.count)

\* HintSequence::from_repeated
from_repeated(s0) ==
    LET s == to_lowercase(s0) IN
    IF s = <<>> THEN None
    ELSE LET base == s[1] IN
         IF ~is_ascii_alphabetic(base) THEN None
         ELSE LET count == str_len(s) IN
              IF \A i \in 1..Len(s) : s[i] = base
              THEN Some(HintSequence_new(base, count))
              ELSE None

\* the while loop of normalize_input: the start of the numeric suffix
\* (letter_end counts the chars before the suffix)
RECURSIVE scan_digits(_, _)
scan_digits(chars, letter_end) ==
    IF letter_end > 0 /\ is_ascii_digit(chars[letter_end])
    THEN scan_digits(chars, letter_end - 1)
    ELSE letter_end

\* normalize_input
normalize_input(input0) ==
    LET input == to_lowercase(input0) IN
    IF str_len(input) >= 2
    THEN LET chars == input
             last == chars[Len(chars)]
         IN  IF is_ascii_digit(last)
             THEN LET letter_end == scan_digits(chars, Len(chars) - 1) IN
                  IF letter_end > 0
                  THEN LET letters == SubSeq(chars, 1, letter_end)
                           num_str == SubSeq(chars, letter_end + 1, Len(chars))
                           num == parse_usize(num_str)
                       IN  IF /\ num > 0
                              /\ num <= MaxRepeat
                              /\ \A i \in 1..Len(letters) : letters[i] = letters[1]
                           THEN repeat(letters[1], num)
                           ELSE input
                  ELSE input
             ELSE input
    ELSE input

\* a matches_input that tests the opposite direction: the hint's string is a
\* prefix of the input
matches_input_reversed(h, input) == starts_with(normalize_input(input), as_string(h))

\* HintSequence::matches_input
matches_input(h, input) == starts_with(as_string(h), normalize_input(input))

\* HintSequence::equals_input
equals_input(h, input) == as_string(h) = normalize_input(input)

-----------------------------------------------------------------------------
(* HintMatcher (core/matcher.rs) *)

\* MatchResult
MatchNone == [tag |-> "None"]
MatchPartial(indices) == [tag |-> "Partial", indices |-> indices]
MatchExact(index, window_id) == [tag |-> "Exact", index |-> index, window_id |-> window_id]

\* the hints kept by the filter of match_input and filter_hints
matching_hints(hs, input) == SelectSeq(hs, LAMBDA h : matches_input(h.hint, input))

\* a find that never finds
find_exact_never(matches, input) == None

\* matches.iter().find(|h| h.hint.equals_input(input)): the first one, if any
find_exact(matches, input) ==
    LET hit == {i \in 1..Len(matches) : equals_input(matches[i].hint, input)} IN
    IF hit = {} THEN None
    ELSE Some(matches[CHOOSE i \in hit : \A j \in hit : i <= j])

\* HintMatcher::match_input
match_input(hs, input) ==
    IF input = <<>>
    THEN MatchPartial([i \in 1..Len(hs) |-> hs[i].index])
    ELSE LET matches == matching_hints(hs, input) IN
         IF Len(matches) = 0 THEN MatchNone
         ELSE IF Len(matches) = 1
         THEN MatchExact(matches[1].index, matches[1].window_id)
         ELSE LET exact == find_exact(matches, input) IN
              IF exact # None
              THEN MatchExact(exact[1].index, exact[1].window_id)
              ELSE MatchPartial([i \in 1..Len(matches) |-> matches[i].index])

\* HintMatcher::filter_hints
filter_hints(hs, input) ==
    IF input = <<>> THEN hs ELSE matching_hints(hs, input)

-----------------------------------------------------------------------------
(* HintAssignment (core/hint.rs), AppId (core/window.rs) *)

\* the base letter of a window whose app has no configured key and no
\* alphabetic character: 'x'
DefaultBase == 120

\* the separator of AppId::last_segment: '.'
Dot == 46

\* AppId::last_segment: the text after the last '.'
RECURSIVE last_segment(_)
last_segment(app_id) ==
    IF \E i \in 1..Len(app_id) : app_id[i] = Dot
    THEN last_segment(Tail(app_id))
    ELSE app_id

\* auto_generate_key
auto_generate_key(app_id) ==
    LET name == to_lowercase(last_segment(app_id))
        alpha == {i \in 1..Len(name) : is_ascii_alphabetic(name[i])}
    IN  IF alpha = {} THEN None
        ELSE Some(name[CHOOSE i \in alpha : \A j \in alpha : i <= j])

\* the base chosen for one window in the first loop of assign
base_for(window, key_for_app) ==
    IF key_for_app[window.app_id] # None THEN key_for_app[window.app_id][1]
    ELSE IF auto_generate_key(window.app_id) # None
    THEN auto_generate_key(window.app_id)[1]
    ELSE DefaultBase

\* by_base[base]: the (original index, window) pairs of one base, in window order
by_base(ws, key_for_app, base) ==
    SelectSeq([i \in 1..Len(ws) |-> [original_index |-> i - 1, window |-> ws[i]]],
              LAMBDA e : base_for(e.window, key_for_app) = base)

\* the keys of by_base
bases_of(ws, key_for_app) == {base_for(ws[i], key_for_app) : i \in 1..Len(ws)}

\* the inner loop of assign: the hints pushed for one group
group_hints(ws, key_for_app, base) ==
    LET windows_group == by_base(ws, key_for_app, base) IN
    [n \in 1..Len(windows_group) |->
        [hint      |-> HintSequence_new(base, (n - 1) + 1),
         window_id |-> windows_group[n].window.id,
         app_id    |-> windows_group[n].window.app_id,
         index     |-> windows_group[n].original_index]]

\* the outer loop of assign, in the iteration order of the HashMap
RECURSIVE push_groups(_, _, _)
push_groups(ws, key_for_app, order) ==
    IF order = <<>> THEN <<>>
    ELSE group_hints(ws, key_for_app, Head(order))
         \o push_groups(ws, key_for_app, Tail(order))

\* insertion of one hint behind every hint whose index is not greater
insert_by_index(sorted, h) ==
    LET before == SelectSeq(sorted, LAMBDA x : x.index <= h.index)
        after  == SelectSeq(sorted, LAMBDA x : x.index > h.index)
    IN  before \o <<h>> \o after

\* an assign without its final sort
sort_by_index_skipped(hs) == hs

\* hints.sort_by_key(|a| a.index): a stable sort
RECURSIVE sort_by_index(_)
sort_by_index(hs) ==
    IF hs = <<>> THEN <<>>
    ELSE insert_by_index(sort_by_index(SubSeq(hs, 1, Len(hs) - 1)), hs[Len(hs)])

\* HintAssignment::assign; order is the order in which the HashMap by_base
\* yields its keys
assign(ws, key_for_app, order) ==
    sort_by_index(push_groups(ws, key_for_app, order))

\* the orders in which a HashMap with the given keys can be iterated
Orders(keys) ==
    {o \in [1..Cardinality(keys) -> keys] : \A i, j \in DOMAIN o : i # j => o[i] # o[j]}

-----------------------------------------------------------------------------
(* TimeoutTracker (util/timeout.rs) *)

\* TimeoutTracker::new
TimeoutTracker_new(duration_ms) == [started_at |-> None, duration |-> duration_ms]

\* TimeoutTracker::start, called at instant t
TimeoutTracker_start(self, t) == [self EXCEPT !.started_at = Some(t)]

\* TimeoutTracker::reset, called at instant t
TimeoutTracker_reset(self, t) == TimeoutTracker_start(self, t)

\* TimeoutTracker::cancel
TimeoutTracker_cancel(self) == [self EXCEPT !.started_at = None]

\* a has_elapsed that needs more than the duration
has_elapsed_strict(self, t) ==
    IF self.started_at = None THEN FALSE
    ELSE t - self.started_at[1] > self.duration

\* TimeoutTracker::has_elapsed, called at instant t
has_elapsed(self, t) ==
    IF self.started_at = None THEN FALSE
    ELSE t - self.started_at[1] >= self.duration

\* TimeoutTracker::is_active, called at instant t
is_active(self, t) == self.started_at # None /\ ~has_elapsed(self, t)

\* TimeoutTracker::remaining, called at instant t
remaining(self, t) ==
    IF self.started_at = None THEN None
    ELSE LET elapsed == t - self.started_at[1] IN
         IF elapsed >= self.duration THEN None
         ELSE Some(self.duration - elapsed)

\* the processes that run acquire, and the lock files that can be created
MaxProcs == 3
MaxInodes == 3
Procs == 1..MaxProcs
Inodes == 1..MaxInodes

\* no lock file exists and no process has started acquire
LockIdle ==
    /\ lock_path = None
    /\ inodes_made = 0
    /\ flock_holder = [i \in Inodes |-> None]
    /\ procs = [p \in Procs |-> [pc |-> "idle", file |-> None]]

\* no MRU file, no window, no run yet
MruIdle ==
    /\ mru_file = None
    /\ desktop = [open |-> {}, focused |-> None]
    /\ session = None

\* the other invocations of the program
Clients == 1..MaxClients

\* no instance started, no socket, no invocation yet
LoopIdle ==
    /\ run = [pc |-> "start", running |-> FALSE, batch |-> 0, cmds |-> <<>>,
              ret |-> None]
    /\ ipc = [socket |-> FALSE, receiver |-> FALSE, chan |-> <<>>, backlog |-> <<>>]
    /\ clients = [c \in Clients |-> [pc |-> "idle", cmd |-> "CycleForward",
                                     response |-> None]]
    /\ hist = [fed_after_exit |-> FALSE, reads |-> 0, exits |-> 0,
               accepted |-> <<>>, delivered |-> <<>>]

\* the components driven on their own are not in use
ExtIdle ==
    /\ tracker = TimeoutTracker_new(0)
    /\ LockIdle
    /\ MruIdle
    /\ LoopIdle
    /\ feed = "any"

-----------------------------------------------------------------------------
(* AppState, ActivationResult, Event, Action, Transition (app/state.rs) *)

BorderOnly(start_time, frame_count) ==
    [tag |-> "BorderOnly", start_time |-> start_time, frame_count |-> frame_count]
FullOverlay(selected_hint_index, input) ==
    [tag |-> "FullOverlay", selected_hint_index |-> selected_hint_index, input |-> input]
PendingActivation(hint_index, input, timeout) ==
    [tag |-> "PendingActivation", hint_index |-> hint_index, input |-> input,
     timeout |-> timeout]
Exiting(result) == [tag |-> "Exiting", result |-> result]

Window(index) == [tag |-> "Window", index |-> index]
QuickSwitch == [tag |-> "QuickSwitch"]
Launch(key) == [tag |-> "Launch", key |-> key]
Cancelled == [tag |-> "Cancelled"]

KeyPress(keysym, shift) == [tag |-> "KeyPress", keysym |-> keysym, shift |-> shift]
AltReleased == [tag |-> "AltReleased"]
Tick == [tag |-> "Tick"]
FrameCallback == [tag |-> "FrameCallback"]
CycleForward == [tag |-> "CycleForward"]
CycleBackward == [tag |-> "CycleBackward"]
Configure(width, height) == [tag |-> "Configure", width |-> width, height |-> height]

\* AppState::selected_hint_index
selected_index_of(self) ==
    IF self.tag = "FullOverlay" THEN self.selected_hint_index
    ELSE IF self.tag = "PendingActivation" THEN self.hint_index
    ELSE 0

\* AppState::input
input_of(self) ==
    IF self.tag \in {"FullOverlay", "PendingActivation"} THEN self.input ELSE <<>>

\* AppState::is_full_overlay
is_full_overlay(self) == self.tag \in {"FullOverlay", "PendingActivation"}

\* AppState::is_exiting
is_exiting(self) == self.tag = "Exiting"

\* AppState::activation_result
activation_result(self) == IF self.tag = "Exiting" THEN Some(self.result) ELSE None

ScheduleRedraw == "ScheduleRedraw"
Exit == "Exit"

\* a returned Transition
Transition(new_state, acts) == [panic |-> FALSE, new_state |-> new_state, actions |-> acts]
\* the call did not return: it panicked
Panic == [panic |-> TRUE]

\* the keysyms the state machine names (raw values of xkbcommon)
Keysym_BackSpace == 65288
Keysym_Tab == 65289
Keysym_Return == 65293
Keysym_Escape == 65307
Keysym_Up == 65362
Keysym_Down == 65364
Keysym_KP_Enter == 65421
Keysym_KP_Up == 65431
Keysym_KP_Down == 65433
Keysym_ISO_Left_Tab == 65056

\* u32::MAX at the model's width
U32Max == 2 ^ FrameBits - 1

\* frame_count + 1 on u32: the sum when it fits; on overflow the build decides,
\* a panic with overflow checks (debug profile) or the wrapped sum without
u32_add(a, b) ==
    IF a + b <= U32Max THEN {Some(a + b)}
    ELSE {None, Some((a + b) % (U32Max + 1))}

\* is_tab
is_tab(keysym) ==
    \/ keysym = Keysym_Tab
    \/ keysym = Keysym_ISO_Left_Tab
    \/ keysym = 65289
    \/ keysym = 65056

\* a cycle_index that steps past the last index instead of wrapping
cycle_index_unwrapped(current, len, forward) ==
    IF len = 0 THEN 0
    ELSE IF forward THEN current + 1
    ELSE IF current = 0 THEN len - 1
    ELSE current - 1

\* a cycle_index that stops at the ends instead of wrapping
cycle_index_clamped(current, len, forward) ==
    IF len = 0 THEN 0
    ELSE IF forward THEN Min(current + 1, len - 1)
    ELSE Max(current - 1, 0)

\* cycle_index (the indices of the model stay far below usize::MAX)
cycle_index(current, len, forward) ==
    IF len = 0 THEN 0
    ELSE IF forward THEN (current + 1) % len
    ELSE IF current = 0 THEN len - 1
    ELSE current - 1

\* keysym_to_char
keysym_to_char(keysym) ==
    IF keysym >= 32 /\ keysym <= 126 THEN Some(keysym) ELSE None

\* Config::launch_config(key).is_some()
has_launch_config(cfg, key) == key \in cfg.launch_keys

\* hints.iter().position(|h| h.window_id.as_str() == prev_id)
position(hs, prev_id) ==
    LET hit == {i \in 1..Len(hs) : hs[i].window_id = prev_id} IN
    IF hit = {} THEN None
    ELSE Some((CHOOSE i \in hit : \A j \in hit : i <= j) - 1)

\* a default selection that ignores the previous window
previous_index_ignored(hs, prev) == 0

\* previous_window_id.and_then(position).unwrap_or(0)
previous_index_or_zero(hs, prev) ==
    IF prev = None THEN 0
    ELSE IF position(hs, prev[1]) = None THEN 0
    ELSE position(hs, prev[1])[1]

\* hints.len().saturating_sub(1)
last_index(hs) == IF Len(hs) = 0 THEN 0 ELSE Len(hs) - 1

\* AppState::initial, called at instant t
initial(launcher, hs, prev, t) ==
    IF launcher
    THEN FullOverlay(previous_index_or_zero(hs, prev), <<>>)
    ELSE BorderOnly(t, 0)

-----------------------------------------------------------------------------
(* AppState::handle_event, one operator per match arm; t is the instant of *)
(* the call; each arm yields the set of outcomes the call can have         *)

\* a PendingActivation whose timeout is created and started at t
pending_started(index, input, cfg, t) ==
    PendingActivation(index, input,
        TimeoutTracker_start(TimeoutTracker_new(cfg.settings.activation_delay), t))

\* (BorderOnly, FrameCallback)
border_frame_callback(self) ==
    {IF sum = None THEN Panic
     ELSE Transition(BorderOnly(self.start_time, sum[1]), <<>>)
       : sum \in u32_add(self.frame_count, 1)}

\* a (BorderOnly, Tick) arm that opens the overlay without asking for a redraw
border_tick_silent(self, cfg, hs, prev, t) ==
    IF t - self.start_time >= cfg.settings.overlay_delay /\ self.frame_count >= 2
    THEN Transition(FullOverlay(previous_index_or_zero(hs, prev), <<>>), <<>>)
    ELSE Transition(self, <<>>)

\* a (BorderOnly, Tick) arm that waits for the delay only, not for two frames
border_tick_time_only(self, cfg, hs, prev, t) ==
    IF t - self.start_time >= cfg.settings.overlay_delay
    THEN Transition(FullOverlay(previous_index_or_zero(hs, prev), <<>>),
                    <<ScheduleRedraw>>)
    ELSE Transition(self, <<>>)

\* (BorderOnly, Tick)
border_tick(self, cfg, hs, prev, t) ==
    LET elapsed == t - self.start_time
        delay == cfg.settings.overlay_delay
    IN  IF elapsed >= delay /\ self.frame_count >= 2
        THEN Transition(FullOverlay(previous_index_or_zero(hs, prev), <<>>),
                        <<ScheduleRedraw>>)
        ELSE Transition(self, <<>>)

\* a (BorderOnly, AltReleased) arm without the threshold: every release is quick
border_alt_released_always_quick(self, cfg, hs, prev, t) ==
    Transition(Exiting(IF prev = None THEN QuickSwitch
                       ELSE Window(previous_index_or_zero(hs, prev))),
               <<Exit>>)

\* (BorderOnly, AltReleased)
border_alt_released(self, cfg, hs, prev, t) ==
    LET elapsed == t - self.start_time
        threshold == cfg.settings.quick_switch_threshold
        result ==
            IF elapsed < threshold
            THEN IF prev # None
                 THEN IF position(hs, prev[1]) # None
                      THEN Window(position(hs, prev[1])[1])
                      ELSE Window(0)
                 ELSE QuickSwitch
            ELSE Window(0)
    IN  Transition(Exiting(result), <<Exit>>)

\* a (BorderOnly, KeyPress) arm that ignores the key
border_key_press_ignored(self, keysym, shift, cfg, hs, t) == Transition(self, <<>>)

\* (BorderOnly, KeyPress)
border_key_press(self, keysym, shift, cfg, hs, t) ==
    IF is_tab(keysym)
    THEN LET idx == IF shift THEN last_index(hs) ELSE Min(1, last_index(hs)) IN
         Transition(FullOverlay(idx, <<>>), <<ScheduleRedraw>>)
    ELSE IF keysym = Keysym_Escape
    THEN Transition(Exiting(Cancelled), <<Exit>>)
    ELSE IF keysym_to_char(keysym) # None
    THEN LET c == keysym_to_char(keysym)[1]
             input == <<c>>
             m == match_input(hs, input)
         IN  IF m.tag = "Exact"
             THEN Transition(pending_started(m.index, input, cfg, t), <<ScheduleRedraw>>)
             ELSE IF m.tag = "Partial"
             THEN Transition(FullOverlay(0, input), <<ScheduleRedraw>>)
             ELSE LET key_str == <<c>> IN
                  IF has_launch_config(cfg, key_str)
                  THEN Transition(Exiting(Launch(key_str)), <<Exit>>)
                  ELSE Transition(FullOverlay(0, <<>>), <<ScheduleRedraw>>)
    ELSE Transition(FullOverlay(0, <<>>), <<ScheduleRedraw>>)

\* a (BorderOnly, CycleForward) arm that selects the first hint
border_cycle_forward_first(self, hs) ==
    Transition(FullOverlay(0, <<>>), <<ScheduleRedraw>>)

\* (BorderOnly, CycleForward)
border_cycle_forward(self, hs) ==
    Transition(FullOverlay(Min(1, last_index(hs)), <<>>), <<ScheduleRedraw>>)

\* (BorderOnly, CycleBackward)
border_cycle_backward(self, hs) ==
    Transition(FullOverlay(last_index(hs), <<>>), <<ScheduleRedraw>>)

\* FullOverlay cycling arms that go forward whatever the direction asked
overlay_cycle_forward_only(self, hs, forward) ==
    Transition(FullOverlay(cycle_index(self.selected_hint_index, Len(hs), TRUE),
                           self.input),
               <<ScheduleRedraw>>)

\* the FullOverlay arms that cycle the selection: Tab, arrows, IPC
overlay_cycle(self, hs, forward) ==
    Transition(FullOverlay(cycle_index(self.selected_hint_index, Len(hs), forward),
                           self.input),
               <<ScheduleRedraw>>)

\* a character arm of FullOverlay that ignores the key
overlay_character_ignored(self, keysym, cfg, hs, t) == Transition(self, <<>>)

\* a character arm of FullOverlay that asks for a redraw when it reverts
overlay_character_redraw(self, keysym, cfg, hs, t) ==
    Transition(self, <<ScheduleRedraw>>)

\* (FullOverlay, KeyPress) with no guard: character input
overlay_character(self, keysym, cfg, hs, t) ==
    IF keysym_to_char(keysym) # None
    THEN LET c == keysym_to_char(keysym)[1]
             new_input == Append(self.input, c)
             m == match_input(hs, new_input)
         IN  IF m.tag = "Exact"
             THEN Transition(pending_started(m.index, new_input, cfg, t),
                             <<ScheduleRedraw>>)
             ELSE IF m.tag = "Partial"
             THEN Transition(FullOverlay(self.selected_hint_index, new_input),
                             <<ScheduleRedraw>>)
             ELSE LET key_str == <<c>> IN
                  IF has_launch_config(cfg, key_str)
                  THEN Transition(Exiting(Launch(key_str)), <<Exit>>)
                  ELSE Transition(FullOverlay(self.selected_hint_index, self.input),
                                  <<>>)
    ELSE Transition(self, <<>>)

\* (FullOverlay, KeyPress) arms where Escape first clears a typed input
overlay_key_press_escape_clears(self, keysym, shift, cfg, hs, t) ==
    IF is_tab(keysym) THEN overlay_cycle(self, hs, ~shift)
    ELSE IF keysym = Keysym_Down \/ keysym = Keysym_KP_Down
    THEN overlay_cycle(self, hs, TRUE)
    ELSE IF keysym = Keysym_Up \/ keysym = Keysym_KP_Up
    THEN overlay_cycle(self, hs, FALSE)
    ELSE IF keysym = Keysym_Return \/ keysym = Keysym_KP_Enter
    THEN Transition(Exiting(Window(self.selected_hint_index)), <<Exit>>)
    ELSE IF keysym = Keysym_Escape
    THEN IF self.input # <<>>
         THEN Transition(FullOverlay(self.selected_hint_index, <<>>), <<ScheduleRedraw>>)
         ELSE Transition(Exiting(Cancelled), <<Exit>>)
    ELSE IF keysym = Keysym_BackSpace
    THEN Transition(FullOverlay(self.selected_hint_index, pop(self.input)),
                    <<ScheduleRedraw>>)
    ELSE overlay_character(self, keysym, cfg, hs, t)

\* (FullOverlay, KeyPress): the guarded arms in source order, then the last one
overlay_key_press(self, keysym, shift, cfg, hs, t) ==
    IF is_tab(keysym) THEN overlay_cycle(self, hs, ~shift)
    ELSE IF keysym = Keysym_Down \/ keysym = Keysym_KP_Down
    THEN overlay_cycle(self, hs, TRUE)
    ELSE IF keysym = Keysym_Up \/ keysym = Keysym_KP_Up
    THEN overlay_cycle(self, hs, FALSE)
    ELSE IF keysym = Keysym_Return \/ keysym = Keysym_KP_Enter
    THEN Transition(Exiting(Window(self.selected_hint_index)), <<Exit>>)
    ELSE IF keysym = Keysym_Escape
    THEN Transition(Exiting(Cancelled), <<Exit>>)
    ELSE IF keysym = Keysym_BackSpace
    THEN Transition(FullOverlay(self.selected_hint_index, pop(self.input)),
                    <<ScheduleRedraw>>)
    ELSE overlay_character(self, keysym, cfg, hs, t)

\* a (FullOverlay, AltReleased) arm that also asks for a redraw
overlay_alt_released_redraws(self) ==
    Transition(Exiting(Window(self.selected_hint_index)), <<ScheduleRedraw, Exit>>)

\* a (FullOverlay, AltReleased) arm that activates the first window
overlay_alt_released_first(self) == Transition(Exiting(Window(0)), <<Exit>>)

\* (FullOverlay, AltReleased)
overlay_alt_released(self) ==
    Transition(Exiting(Window(self.selected_hint_index)), <<Exit>>)

\* a (PendingActivation, Tick) arm that activates without waiting
pending_tick_immediate(self, t) ==
    Transition(Exiting(Window(self.hint_index)), <<Exit>>)

\* (PendingActivation, Tick)
pending_tick(self, t) ==
    IF has_elapsed(self.timeout, t)
    THEN Transition(Exiting(Window(self.hint_index)), <<Exit>>)
    ELSE Transition(self, <<>>)

\* a (PendingActivation, KeyPress) arm that keeps the running timeout on a new
\* exact match
pending_key_press_keeps_timeout(self, keysym, cfg, hs, t) ==
    IF keysym_to_char(keysym) # None
    THEN LET new_input == Append(self.input, keysym_to_char(keysym)[1])
             m == match_input(hs, new_input)
         IN  IF m.tag = "Exact"
             THEN Transition(PendingActivation(m.index, new_input, self.timeout),
                             <<ScheduleRedraw>>)
             ELSE IF m.tag = "Partial"
             THEN Transition(FullOverlay(self.hint_index, new_input),
                             <<ScheduleRedraw>>)
             ELSE Transition(self, <<>>)
    ELSE IF keysym = Keysym_Escape
    THEN Transition(Exiting(Cancelled), <<Exit>>)
    ELSE IF keysym = Keysym_BackSpace
    THEN Transition(FullOverlay(self.hint_index, pop(self.input)), <<ScheduleRedraw>>)
    ELSE Transition(self, <<>>)

\* a (PendingActivation, KeyPress) arm that drops the selection when it leaves
\* for FullOverlay
pending_key_press_selects_first(self, keysym, cfg, hs, t) ==
    IF keysym_to_char(keysym) # None
    THEN LET new_input == Append(self.input, keysym_to_char(keysym)[1])
             m == match_input(hs, new_input)
         IN  IF m.tag = "Exact"
             THEN Transition(pending_started(m.index, new_input, cfg, t),
                             <<ScheduleRedraw>>)
             ELSE IF m.tag = "Partial"
             THEN Transition(FullOverlay(0, new_input), <<ScheduleRedraw>>)
             ELSE Transition(self, <<>>)
    ELSE IF keysym = Keysym_Escape
    THEN Transition(Exiting(Cancelled), <<Exit>>)
    ELSE IF keysym = Keysym_BackSpace
    THEN Transition(FullOverlay(0, pop(self.input)), <<ScheduleRedraw>>)
    ELSE Transition(self, <<>>)

\* a (PendingActivation, KeyPress) arm that restarts the timeout on every key
pending_key_press_postponed(self, keysym, cfg, hs, t) ==
    Transition(pending_started(self.hint_index, self.input, cfg, t), <<>>)

\* (PendingActivation, KeyPress)
pending_key_press(self, keysym, cfg, hs, t) ==
    IF keysym_to_char(keysym) # None
    THEN LET c == keysym_to_char(keysym)[1]
             new_input == Append(self.input, c)
             m == match_input(hs, new_input)
         IN  IF m.tag = "Exact"
             THEN Transition(pending_started(m.index, new_input, cfg, t),
                             <<ScheduleRedraw>>)
             ELSE IF m.tag = "Partial"
             THEN Transition(FullOverlay(self.hint_index, new_input),
                             <<ScheduleRedraw>>)
             ELSE Transition(self, <<>>)
    ELSE IF keysym = Keysym_Escape
    THEN Transition(Exiting(Cancelled), <<Exit>>)
    ELSE IF keysym = Keysym_BackSpace
    THEN Transition(FullOverlay(self.hint_index, pop(self.input)), <<ScheduleRedraw>>)
    ELSE Transition(self, <<>>)

\* a (PendingActivation, AltReleased) arm that leaves the activation to the Tick
pending_alt_released_waits(self) == Transition(self, <<>>)

\* (PendingActivation, AltReleased)
pending_alt_released(self) ==
    Transition(Exiting(Window(self.hint_index)), <<Exit>>)

\* default arm that asks for a redraw
default_arm_redraw(self) == Transition(self, <<ScheduleRedraw>>)

\* default arm that cancels an exit already decided
default_arm_cancel(self) ==
    IF self.tag = "Exiting" THEN Transition(Exiting(Cancelled), <<>>)
    ELSE Transition(self, <<>>)

\* the default arm: stay in the current state
default_arm(self) == Transition(self, <<>>)

\* AppState::handle_event: the outcomes of one call made at instant t
handle_event(self, ev, cfg, hs, prev, t) ==
    IF self.tag = "BorderOnly" /\ ev.tag = "FrameCallback"
    THEN border_frame_callback(self)
    ELSE IF self.tag = "BorderOnly" /\ ev.tag = "Tick"
    THEN {border_tick(self, cfg, hs, prev, t)}
    ELSE IF self.tag = "BorderOnly" /\ ev.tag = "AltReleased"
    THEN {border_alt_released(self, cfg, hs, prev, t)}
    ELSE IF self.tag = "BorderOnly" /\ ev.tag = "KeyPress"
    THEN {border_key_press(self, ev.keysym, ev.shift, cfg, hs, t)}
    ELSE IF self.tag = "BorderOnly" /\ ev.tag = "CycleForward"
    THEN {border_cycle_forward(self, hs)}
    ELSE IF self.tag = "BorderOnly" /\ ev.tag = "CycleBackward"
    THEN {border_cycle_backward(self, hs)}
    ELSE IF self.tag = "FullOverlay" /\ ev.tag = "KeyPress"
    THEN {overlay_key_press(self, ev.keysym, ev.shift, cfg, hs, t)}
    ELSE IF self.tag = "FullOverlay" /\ ev.tag = "AltReleased"
    THEN {overlay_alt_released(self)}
    ELSE IF self.tag = "FullOverlay" /\ ev.tag = "CycleForward"
    THEN {overlay_cycle(self, hs, TRUE)}
    ELSE IF self.tag = "FullOverlay" /\ ev.tag = "CycleBackward"
    THEN {overlay_cycle(self, hs, FALSE)}
    ELSE IF self.tag = "PendingActivation" /\ ev.tag = "Tick"
    THEN {pending_tick(self, t)}
    ELSE IF self.tag = "PendingActivation" /\ ev.tag = "KeyPress"
    THEN {pending_key_press(self, ev.keysym, cfg, hs, t)}
    ELSE IF self.tag = "PendingActivation" /\ ev.tag = "AltReleased"
    THEN {pending_alt_released(self)}
    ELSE {default_arm(self)}

-----------------------------------------------------------------------------
(* App::run (app/mod.rs): the final state's result resolved to a target *)

\* a result mapping that hands an index on without the bounds guard
run_result_unguarded(result, hs, prev) ==
    IF result.tag = "Window"
    THEN Some(<<result.index,
                IF result.index < Len(hs) THEN hs[result.index + 1].window_id ELSE 0>>)
    ELSE IF result.tag = "QuickSwitch"
    THEN IF prev # None /\ position(hs, prev[1]) # None
         THEN Some(<<position(hs, prev[1])[1], prev[1]>>)
         ELSE IF hs # <<>> THEN Some(<<0, hs[1].window_id>>) ELSE None
    ELSE IF result.tag = "Launch"
    THEN Some(<<"MAX", result.key>>)
    ELSE None

\* the match on activation_result() at the end of App::run: None, or
\* Some((index, identifier)); a launch has the index usize::MAX, written "MAX"
run_result(result, hs, prev) ==
    IF result.tag = "Window"
    THEN IF result.index < Len(hs)
         THEN Some(<<result.index, hs[result.index + 1].window_id>>)
         ELSE IF hs # <<>> THEN Some(<<0, hs[1].window_id>>) ELSE None
    ELSE IF result.tag = "QuickSwitch"
    THEN IF prev # None /\ position(hs, prev[1]) # None
         THEN Some(<<position(hs, prev[1])[1], prev[1]>>)
         ELSE IF hs # <<>> THEN Some(<<0, hs[1].window_id>>) ELSE None
    ELSE IF result.tag = "Launch"
    THEN Some(<<"MAX", result.key>>)
    ELSE None

-----------------------------------------------------------------------------
(* Overlay::render_full (ui/overlay.rs) and App::draw (app/mod.rs) *)

\* hints.iter().filter(|h| input.is_empty() || h.hint.matches_input(input))
visible_hints(hs, input) ==
    SelectSeq(hs, LAMBDA h : input = <<>> \/ matches_input(h.hint, input))

\* Overlay::render_full: the original indices of the rows drawn, in order, and
\* the position (from 0) of the row drawn as selected; no row when nothing is
\* visible
render_full(hs, input0, selection) ==
    LET visible == visible_hints(hs, input0) IN
    IF visible = <<>>
    THEN [full |-> TRUE, rows |-> <<>>, selected |-> None]
    ELSE [full |-> TRUE,
          rows |-> [i \in 1..Len(visible) |-> visible[i].index],
          selected |-> Some(Min(selection, Len(visible) - 1))]

\* Overlay::render_initial: the border only
render_initial == [full |-> FALSE, rows |-> <<>>, selected |-> None]

\* App::draw and Renderer::render: what is drawn for the state self
draw(self, hs) ==
    IF is_full_overlay(self)
    THEN render_full(hs, input_of(self), selected_index_of(self))
    ELSE render_initial

-----------------------------------------------------------------------------
(* The environment: windows, configuration, keys *)

\* app ids: "fx", "c.G" (last segment "G") and "42" (no alphabetic character)
App_fx == <<102, 120>>
App_cG == <<99, 46, 71>>
App_42 == <<52, 50>>
Apps == {App_fx, App_cG, App_42}

\* the enumerated windows: the i-th window has the id i
MakeWindows(app_ids) == [i \in 1..Len(app_ids) |-> [id |-> i, app_id |-> app_ids[i]]]
WindowLists(apps, n) == {MakeWindows(a) : a \in UNION {[1..k -> apps] : k \in 0..n}}

\* key_for_app of three configurations: no key configured; 'f' for fx and 'g'
\* for c.G; 'F' for fx and 'f' for c.G
KeyMap_none == [a \in Apps |-> None]
KeyMap_fg == [a \in Apps |-> IF a = App_fx THEN Some(102)
                               ELSE IF a = App_cG THEN Some(103) ELSE None]
KeyMap_Ff == [a \in Apps |-> IF a = App_fx THEN Some(70)
                               ELSE IF a = App_cG THEN Some(102) ELSE None]
KeyMaps == {KeyMap_fg, KeyMap_Ff}

\* the delays of the configuration, in ticks of the model clock
OverlayDelay == 2
ActivationDelay == 1
QuickSwitchThreshold == 1

\* the Config: the three delays, and launch commands for the keys "x" and "g"
Configs ==
    {[settings |-> [overlay_delay |-> OverlayDelay,
                    activation_delay |-> ActivationDelay,
                    quick_switch_threshold |-> QuickSwitchThreshold],
      launch_keys |-> {<<120>>, <<103>>}]}

\* the keys pressed: the named keysyms, F1 (65470, a key no arm names and no
\* character), and the characters f g x 2
Keysyms ==
    {Keysym_Tab, Keysym_ISO_Left_Tab, Keysym_Escape, Keysym_Return, Keysym_KP_Enter,
     Keysym_Down, Keysym_KP_Down, Keysym_Up, Keysym_KP_Up, Keysym_BackSpace,
     65470, 102, 103, 120, 50}

\* the surface sizes of Configure events
SurfaceSizes == {1, 2}

-----------------------------------------------------------------------------
(* The program: hints assigned, AppState::initial, then events *)

Init ==
    /\ windows \in WindowLists({App_fx, App_cG}, MaxWindows)
    /\ keyFor \in KeyMaps
    /\ \E order \in Orders(bases_of(windows, keyFor)) :
          hints = assign(windows, keyFor, order)
    /\ previous_window_id \in {None} \cup {Some(i) : i \in 1..(Len(windows) + 1)}
    /\ launcher_mode \in BOOLEAN
    /\ config \in Configs
    /\ now = 0
    /\ state = initial(launcher_mode, hints, previous_window_id, now)
    /\ actions = <<>>
    /\ event = None
    /\ panicked = FALSE
    /\ call = None
    /\ ret = None
    /\ ExtIdle

\* App::process_event: one call of handle_event; the new state replaces the old
\* one and the actions are returned, or the call panics
Dispatch(ev) ==
    /\ ~panicked
    /\ \E o \in handle_event(state, ev, config, hints, previous_window_id, now) :
          IF o.panic
          THEN /\ panicked' = TRUE
               /\ UNCHANGED <<state, actions>>
          ELSE /\ panicked' = FALSE
               /\ state' = o.new_state
               /\ actions' = o.actions
    /\ event' = Some(ev.tag)
    /\ UNCHANGED <<windows, keyFor, hints, previous_window_id, launcher_mode,
                   config, now, call, ret, extVars>>

\* the events fed to the state machine
\* (shift is read by the Tab arms only: it is varied for the two Tab keysyms and
\* for one character)
KeyEvents ==
    {KeyPress(k, FALSE) : k \in Keysyms}
        \cup {KeyPress(k, TRUE) : k \in {Keysym_Tab, Keysym_ISO_Left_Tab, 102}}
ConfigureEvents == {Configure(w, 1) : w \in SurfaceSizes}
Events == KeyEvents \cup ConfigureEvents
              \cup {AltReleased, Tick, FrameCallback, CycleForward, CycleBackward}

DispatchKeyPress == \E ev \in KeyEvents : Dispatch(ev)
DispatchAltReleased == Dispatch(AltReleased)
DispatchTick == Dispatch(Tick)
DispatchFrameCallback == Dispatch(FrameCallback)
DispatchCycleForward == Dispatch(CycleForward)
DispatchCycleBackward == Dispatch(CycleBackward)
DispatchConfigure == \E ev \in ConfigureEvents : Dispatch(ev)

\* the clock advances between two calls
AdvanceTime ==
    /\ ~panicked
    /\ now < MaxTime
    /\ now' = now + 1
    /\ UNCHANGED <<windows, keyFor, hints, previous_window_id, launcher_mode,
                   config, state, actions, event, panicked, call, ret, extVars>>

Next ==
    \/ DispatchKeyPress
    \/ DispatchAltReleased
    \/ DispatchTick
    \/ DispatchFrameCallback
    \/ DispatchCycleForward
    \/ DispatchCycleBackward
    \/ DispatchConfigure
    \/ AdvanceTime

Spec == Init /\ [][Next]_vars

-----------------------------------------------------------------------------
(* The function harness: one call of a pure function of the hint engine or *)
(* of cycle_index, with arguments drawn from bounded sets                  *)

Strings(chars, n) == UNION {[1..k -> chars] : k \in 0..n}

\* g G f ! 0 2 6 7 and U+212A KELVIN SIGN
InputChars == {103, 71, 102, 33, 48, 50, 54, 55, 8490}
\* g G f 2 and U+212A KELVIN SIGN
RepeatedChars == {103, 71, 102, 50, 8490}
\* f x 2
MatchChars == {102, 120, 50}
\* g G 1 ! and U+212A KELVIN SIGN
BaseChars == {103, 71, 49, 33, 8490}
\* the keys a configuration can give an app: none, f, F
KeyChoices == {None, Some(102), Some(70)}

\* hint lists as a caller of match_input can build them: any hints, each with
\* its position as index and a window id of its own
HintSequences == {[base |-> b, count |-> n] : b \in {102, 120}, n \in 1..MaxCount}
MakeHints(seqs) ==
    [i \in 1..Len(seqs) |->
        [hint |-> seqs[i], window_id |-> i, app_id |-> <<>>, index |-> i - 1]]
HintLists == {MakeHints(q) : q \in Strings(HintSequences, MaxHints)}

NormalizeCalls ==
    {[op |-> "normalize_input", input |-> s] : s \in Strings(InputChars, MaxInputLen)}
FromRepeatedCalls ==
    {[op |-> "from_repeated", s |-> s] : s \in Strings(RepeatedChars, MaxInputLen)}
NewCalls ==
    {[op |-> "new", base |-> b, count |-> n] : b \in BaseChars, n \in 0..MaxCount}
CycleCalls ==
    {[op |-> "cycle_index", current |-> i, len |-> n, forward |-> f] :
        i \in 0..MaxCycleLen, n \in 0..MaxCycleLen, f \in BOOLEAN}
MatchCalls ==
    {[op |-> "match_input", hints |-> hl, input |-> s] :
        hl \in HintLists, s \in Strings(MatchChars, MaxInputLen)}
AssignCalls ==
    UNION {UNION {{[op |-> "assign", windows |-> ws, key_for_app |-> kf, order |-> o] :
                      o \in Orders(bases_of(ws, kf))}
                  : kf \in [Apps -> KeyChoices]}
           : ws \in WindowLists(Apps, MaxAssignWindows)}

\* handle_event called on its own, as its unit tests call it: a state, a key,
\* a Tick or the release of Alt, a hint list a caller can build (hints "f", "ff", ... of any counts,
\* not only those assign builds), no previous window, at the instant t
HandleHintLists ==
    {MakeHints(q) : q \in Strings({[base |-> 102, count |-> n] : n \in 1..(MaxCount + 1)},
                                  MaxHints)}
HandleInputs == Strings({102}, MaxCount - 1)
HandleStates ==
    {BorderOnly(0, 0)}
        \cup {FullOverlay(i, s) : i \in 0..(MaxHints - 1), s \in HandleInputs}
        \cup {PendingActivation(i, s, TimeoutTracker_start(
                                         TimeoutTracker_new(ActivationDelay), 0)) :
                 i \in 0..(MaxHints - 1), s \in HandleInputs}
\* f x 2, F1, BackSpace, Return, KP_Enter
HandleKeys == {102, 120, 50, 65470, Keysym_BackSpace, Keysym_Return, Keysym_KP_Enter}
HandleEvents == {KeyPress(k, FALSE) : k \in HandleKeys} \cup {Tick, AltReleased}
HandleCalls ==
    {[op |-> "handle_event", self |-> st, ev |-> ev, hints |-> hl, t |-> t] :
        st \in HandleStates, ev \in HandleEvents, hl \in HandleHintLists,
        t \in {0, ActivationDelay}}

\* handle_event called in FullOverlay with an event that cycles the selection:
\* hint lists of every length up to MaxCycleLen (the hints "f", "ff", ...), a
\* selection within the list, as the arms of handle_event leave it
HandleCycleHintLists ==
    {MakeHints([i \in 1..n |-> [base |-> 102, count |-> i]]) : n \in 0..MaxCycleLen}
HandleCycleEvents ==
    {KeyPress(k, shift) :
        k \in {Keysym_Tab, Keysym_ISO_Left_Tab, Keysym_Down, Keysym_KP_Down,
               Keysym_Up, Keysym_KP_Up},
        shift \in BOOLEAN}
        \cup {CycleForward, CycleBackward}
HandleCycleCalls ==
    UNION {{[op |-> "handle_event", self |-> FullOverlay(i, s), ev |-> ev,
             hints |-> hl, t |-> 0] :
               i \in 0..(Max(Len(hl), 1) - 1), s \in HandleInputs, ev \in HandleCycleEvents}
           : hl \in HandleCycleHintLists}

\* AppState::initial called on its own: either mode, hints whose window ids
\* are any distinct ids (a previous window can sit at any position), a previous
\* window id that is absent, in the hints or in none, at the instant t
WindowIdLists ==
    {ids \in Strings(1..(MaxHints + 1), MaxHints) :
        \A i, j \in DOMAIN ids : i # j => ids[i] # ids[j]}
InitialHintLists ==
    {[i \in 1..Len(ids) |->
         [hint |-> [base |-> 102, count |-> i], window_id |-> ids[i], app_id |-> <<>>,
          index |-> i - 1]] : ids \in WindowIdLists}
InitialCalls ==
    {[op |-> "initial", launcher_mode |-> l, hints |-> hl, previous_window_id |-> p,
      t |-> t] :
        l \in BOOLEAN, hl \in InitialHintLists,
        p \in {None} \cup {Some(i) : i \in 1..(MaxHints + 1)}, t \in 0..MaxTime}

\* a session in either mode that ends with AltReleased as its first event, t
\* after it began: the same hints and previous window id for both modes
QuickReleaseCalls ==
    {[op |-> "quick_release", hints |-> hl, previous_window_id |-> p, t |-> t] :
        hl \in InitialHintLists,
        p \in {None} \cup {Some(i) : i \in 1..(MaxHints + 1)},
        t \in 0..QuickSwitchThreshold}

\* the end of App::run on any final state: no result, or a result whose Window
\* index is in the hints or beyond them
ActivationResults ==
    {Window(i) : i \in 0..(MaxHints + 1)} \cup {QuickSwitch, Launch(<<103>>), Cancelled}
RunResultCalls ==
    {[op |-> "run_result", result |-> r, hints |-> hl, previous_window_id |-> p] :
        r \in {None} \cup {Some(a) : a \in ActivationResults},
        hl \in InitialHintLists,
        p \in {None} \cup {Some(i) : i \in 1..(MaxHints + 1)}}

\* a launcher session drawn after a few keys: the hints assign gives to up to
\* MaxDrawWindows windows of the apps fx and c.G (keys f and g), and up to
\* MaxDrawKeys keys among f, g, BackSpace and Tab
DrawHintLists ==
    UNION {{assign(ws, KeyMap_fg, o) : o \in Orders(bases_of(ws, KeyMap_fg))}
           : ws \in WindowLists({App_fx, App_cG}, MaxDrawWindows)}
DrawKeys == {102, 103, Keysym_BackSpace, Keysym_Tab}
DrawCalls ==
    {[op |-> "draw", hints |-> hl, keys |-> ks] :
        hl \in DrawHintLists, ks \in Strings(DrawKeys, MaxDrawKeys)}

Calls == NormalizeCalls \cup FromRepeatedCalls \cup NewCalls \cup CycleCalls
            \cup MatchCalls \cup AssignCalls \cup HandleCalls \cup HandleCycleCalls
            \cup InitialCalls \cup QuickReleaseCalls \cup RunResultCalls
            \cup DrawCalls

InitFn ==
    /\ call \in {Some(c) : c \in Calls}
    /\ ret = None
    /\ windows = <<>>
    /\ keyFor = KeyMap_fg
    /\ hints = <<>>
    /\ previous_window_id = None
    /\ launcher_mode = FALSE
    /\ config \in Configs
    /\ now = 0
    /\ state = initial(FALSE, <<>>, None, 0)
    /\ actions = <<>>
    /\ event = None
    /\ panicked = FALSE
    /\ ExtIdle

\* the call returns r
Return(r) ==
    /\ ret = None
    /\ ret' = Some(r)
    /\ UNCHANGED <<windows, keyFor, hints, previous_window_id, launcher_mode, config,
                   state, actions, event, now, panicked, call, extVars>>

CallNormalizeInput ==
    /\ call[1].op = "normalize_input"
    /\ Return(normalize_input(call[1].input))

CallFromRepeated ==
    /\ call[1].op = "from_repeated"
    /\ Return(from_repeated(call[1].s))

\* HintSequence::new, then as_string, then from_repeated of that string
CallNew ==
    /\ call[1].op = "new"
    /\ LET seq == HintSequence_new(call[1].base, call[1].count) IN
       Return([seq |-> seq,
               string |-> as_string(seq),
               parsed |-> from_repeated(as_string(seq))])

\* cycle_index, and cycle_index backward of cycle_index forward
CallCycleIndex ==
    /\ call[1].op = "cycle_index"
    /\ Return([result |-> cycle_index(call[1].current, call[1].len, call[1].forward),
               there_and_back |->
                   cycle_index(cycle_index(call[1].current, call[1].len, TRUE),
                               call[1].len, FALSE)])

CallMatchInput ==
    /\ call[1].op = "match_input"
    /\ Return(match_input(call[1].hints, call[1].input))

CallAssign ==
    /\ call[1].op = "assign"
    /\ Return(assign(call[1].windows, call[1].key_for_app, call[1].order))

\* handle_event with the configuration, the call's hints and no previous window
CallHandleEvent ==
    /\ call[1].op = "handle_event"
    /\ \E o \in handle_event(call[1].self, call[1].ev, config, call[1].hints,
                             None, call[1].t) :
          Return(o)

CallInitial ==
    /\ call[1].op = "initial"
    /\ Return(initial(call[1].launcher_mode, call[1].hints, call[1].previous_window_id,
                      call[1].t))

\* the ActivationResult of initial followed by AltReleased at the instant t
released(launcher, hs, prev, t) ==
    (CHOOSE o \in handle_event(initial(launcher, hs, prev, 0), AltReleased, config, hs,
                               prev, t) : TRUE).new_state.result

\* both modes on the call's hints and previous window id, and what App::run
\* makes of each result
CallQuickRelease ==
    /\ call[1].op = "quick_release"
    /\ LET hs == call[1].hints
           prev == call[1].previous_window_id
           l == released(TRUE, hs, prev, call[1].t)
           w == released(FALSE, hs, prev, call[1].t)
       IN  Return([launcher |-> l, switcher |-> w,
                   launcher_target |-> run_result(l, hs, prev),
                   switcher_target |-> run_result(w, hs, prev)])

\* the result App::run returns for the call's final activation_result()
CallRunResult ==
    /\ call[1].op = "run_result"
    /\ Return(IF call[1].result = None THEN None
              ELSE run_result(call[1].result[1], call[1].hints,
                              call[1].previous_window_id))

\* the state after the keys ks are pressed one after the other at the instant
\* 0, from the state self
\* the one outcome of a key press, or self unchanged when it panics
settled(outs, self) ==
    LET o == CHOOSE o \in outs : TRUE
    IN  IF o.panic THEN self ELSE o.new_state

RECURSIVE after_keys(_, _, _)
after_keys(self, ks, hs) ==
    IF ks = <<>> THEN self
    ELSE after_keys(settled(handle_event(self, KeyPress(Head(ks), FALSE), config,
                                         hs, None, 0), self),
                    Tail(ks), hs)

\* App::draw on the state s, with the state it drew
drawn_state(s, hs) == [state |-> s, drawn |-> draw(s, hs)]

\* a launcher session on the call's hints: the keys are pressed, then App::draw
CallDraw ==
    /\ call[1].op = "draw"
    /\ Return(drawn_state(after_keys(initial(TRUE, call[1].hints, None, 0),
                                     call[1].keys, call[1].hints),
                          call[1].hints))

NextFn ==
    \/ CallNormalizeInput
    \/ CallFromRepeated
    \/ CallNew
    \/ CallCycleIndex
    \/ CallMatchInput
    \/ CallAssign
    \/ CallHandleEvent
    \/ CallInitial
    \/ CallQuickRelease
    \/ CallRunResult
    \/ CallDraw

SpecFn == InitFn /\ [][NextFn]_vars

-----------------------------------------------------------------------------
(* A TimeoutTracker driven on its own: start, reset and cancel at any instant, *)
(* the clock advancing in between; event holds the last method called         *)

\* the last instant of the tracker's clock
TimerHorizon == MaxTime + 3

InitTimer ==
    /\ \E d \in 0..MaxTime : tracker = TimeoutTracker_new(d)
    /\ now = 0
    /\ event = None
    /\ windows = <<>>
    /\ keyFor = KeyMap_fg
    /\ hints = <<>>
    /\ previous_window_id = None
    /\ launcher_mode = FALSE
    /\ config \in Configs
    /\ state = initial(FALSE, <<>>, None, 0)
    /\ actions = <<>>
    /\ panicked = FALSE
    /\ call = None
    /\ ret = None
    /\ LockIdle
    /\ MruIdle
    /\ LoopIdle
    /\ feed = "any"

\* what a method of the tracker leaves alone
TimerFrame ==
    UNCHANGED <<windows, keyFor, hints, previous_window_id, launcher_mode, config,
                state, actions, panicked, call, ret, lockVars, mruVars, loopVars,
                feed>>

TrackerStart ==
    /\ tracker' = TimeoutTracker_start(tracker, now)
    /\ event' = Some("start")
    /\ UNCHANGED now
    /\ TimerFrame

TrackerReset ==
    /\ tracker' = TimeoutTracker_reset(tracker, now)
    /\ event' = Some("reset")
    /\ UNCHANGED now
    /\ TimerFrame

TrackerCancel ==
    /\ tracker' = TimeoutTracker_cancel(tracker)
    /\ event' = Some("cancel")
    /\ UNCHANGED now
    /\ TimerFrame

\* the clock advances between two calls
TimerAdvance ==
    /\ now < TimerHorizon
    /\ now' = now + 1
    /\ UNCHANGED <<tracker, event>>
    /\ TimerFrame

NextTimer ==
    \/ TrackerStart
    \/ TrackerReset
    \/ TrackerCancel
    \/ TimerAdvance

SpecTimer == InitTimer /\ [][NextTimer]_vars

-----------------------------------------------------------------------------
(* InstanceLock among several processes (util/lock.rs): acquire is open then  *)
(* flock; drop is remove_file (the body of Drop::drop) then the close of the  *)
(* File field, which releases the flock; each system call is one step         *)

InitLock ==
    /\ LockIdle
    /\ MruIdle
    /\ tracker = TimeoutTracker_new(0)
    /\ now = 0
    /\ event = None
    /\ windows = <<>>
    /\ keyFor = KeyMap_fg
    /\ hints = <<>>
    /\ previous_window_id = None
    /\ launcher_mode = FALSE
    /\ config \in Configs
    /\ state = initial(FALSE, <<>>, None, 0)
    /\ actions = <<>>
    /\ panicked = FALSE
    /\ call = None
    /\ ret = None
    /\ LoopIdle
    /\ feed = "any"

\* what a step of a process on the lock leaves alone
LockFrame ==
    UNCHANGED <<windows, keyFor, hints, previous_window_id, launcher_mode, config,
                state, actions, event, now, panicked, call, ret, tracker, mruVars,
                loopVars, feed>>

\* acquire, OpenOptions::open with create and without truncate: the file the
\* path names, or a new file when the path names none
LockOpen(p) ==
    /\ procs[p].pc = "idle"
    /\ IF lock_path # None
       THEN /\ procs' = [procs EXCEPT ![p] = [pc |-> "opened", file |-> lock_path]]
            /\ UNCHANGED <<lock_path, inodes_made>>
       ELSE /\ inodes_made < MaxInodes
            /\ inodes_made' = inodes_made + 1
            /\ lock_path' = Some(inodes_made + 1)
            /\ procs' = [procs EXCEPT ![p] = [pc |-> "opened",
                                              file |-> Some(inodes_made + 1)]]
    /\ UNCHANGED flock_holder
    /\ LockFrame

\* acquire, flock(fd, LOCK_EX | LOCK_NB) on the opened file: success writes the
\* PID and returns Ok(lock); failure returns Err and the File is closed
LockFlock(p) ==
    /\ procs[p].pc = "opened"
    /\ LET f == procs[p].file[1] IN
       IF flock_holder[f] = None
       THEN /\ flock_holder' = [flock_holder EXCEPT ![f] = Some(p)]
            /\ procs' = [procs EXCEPT ![p].pc = "held"]
       ELSE /\ procs' = [procs EXCEPT ![p] = [pc |-> "idle", file |-> None]]
            /\ UNCHANGED flock_holder
    /\ UNCHANGED <<lock_path, inodes_made>>
    /\ LockFrame

\* Drop::drop: remove_file(&self.path) removes whatever file the path names
LockUnlink(p) ==
    /\ procs[p].pc = "held"
    /\ lock_path' = None
    /\ procs' = [procs EXCEPT ![p].pc = "unlinked"]
    /\ UNCHANGED <<inodes_made, flock_holder>>
    /\ LockFrame

\* after Drop::drop the File field is dropped: close releases the flock
LockClose(p) ==
    /\ procs[p].pc = "unlinked"
    /\ flock_holder' = [flock_holder EXCEPT ![procs[p].file[1]] = None]
    /\ procs' = [procs EXCEPT ![p] = [pc |-> "idle", file |-> None]]
    /\ UNCHANGED <<lock_path, inodes_made>>
    /\ LockFrame

ProcOpens == \E p \in Procs : LockOpen(p)
ProcFlocks == \E p \in Procs : LockFlock(p)
ProcUnlinks == \E p \in Procs : LockUnlink(p)
ProcCloses == \E p \in Procs : LockClose(p)

NextLock ==
    \/ ProcOpens
    \/ ProcFlocks
    \/ ProcUnlinks
    \/ ProcCloses

SpecLock == InitLock /\ [][NextLock]_vars

-----------------------------------------------------------------------------
(* Runs of run_launcher one after the other over the MRU file (main.rs,      *)
(* util/mru.rs): each run enumerates the windows, computes the quick-switch  *)
(* target, ends with a result and, when a window was activated, saves the    *)
(* MRU state; between two runs windows close and the user changes the focus  *)

\* the windows of the desktop
MaxMruWindows == 3
MruWindowIds == 1..MaxMruWindows

\* MruState
MruState(previous, current) == [previous |-> previous, current |-> current]

\* parse_mru_contents: the first line is previous, the second current, an
\* empty or missing line is None (a line is the Option of the id written)
parse_mru_contents(lines) ==
    MruState(IF Len(lines) >= 1 THEN lines[1] ELSE None,
             IF Len(lines) >= 2 THEN lines[2] ELSE None)

\* load_mru_state: the default state when the file cannot be opened
load_mru_state(file) ==
    IF file = None THEN MruState(None, None) ELSE parse_mru_contents(file[1])

\* save_activated_window: the file after the call
save_activated_window(file, origin_window_id, new_window_id) ==
    IF origin_window_id = Some(new_window_id) THEN file
    ELSE Some(<<origin_window_id, Some(new_window_id)>>)

\* enumerate_windows: the toplevels in the order the compositor state yields
\* them, the focused one moved to the end
enumerate_windows(order, focused) ==
    LET all == [i \in 1..Len(order) |->
                   [id |-> order[i], app_id |-> App_fx,
                    is_focused |-> focused = Some(order[i])]]
    IN  SelectSeq(all, LAMBDA w : ~w.is_focused)
            \o SelectSeq(all, LAMBDA w : w.is_focused)

\* windows.iter().find(|w| w.is_focused): the id of the window of origin
window_of_origin(ws) ==
    LET hit == {i \in 1..Len(ws) : ws[i].is_focused} IN
    IF hit = {} THEN None ELSE Some(ws[CHOOSE i \in hit : \A j \in hit : i <= j].id)

\* a quick-switch target that is always the first hint
quick_switch_target_first(hs, mru_previous) ==
    IF hs # <<>> THEN Some(hs[1].window_id) ELSE None

\* run_launcher: quick_switch_target
quick_switch_target(hs, mru_previous) ==
    IF hs # <<>>
    THEN IF mru_previous # None
         THEN IF \E i \in 1..Len(hs) : hs[i].window_id = mru_previous[1]
              THEN mru_previous
              ELSE Some(hs[1].window_id)
         ELSE Some(hs[1].window_id)
    ELSE None

\* the orders in which the toplevels of the open windows can be yielded
WindowOrders(open) ==
    {o \in [1..Cardinality(open) -> open] : \A i, j \in DOMAIN o : i # j => o[i] # o[j]}

InitMru ==
    /\ mru_file = None
    /\ desktop \in {[open |-> MruWindowIds, focused |-> Some(w)] : w \in MruWindowIds}
    /\ session = None
    /\ LockIdle
    /\ tracker = TimeoutTracker_new(0)
    /\ now = 0
    /\ event = None
    /\ windows = <<>>
    /\ keyFor = KeyMap_fg
    /\ hints = <<>>
    /\ previous_window_id = None
    /\ launcher_mode = FALSE
    /\ config \in Configs
    /\ state = initial(FALSE, <<>>, None, 0)
    /\ actions = <<>>
    /\ panicked = FALSE
    /\ call = None
    /\ ret = None
    /\ LoopIdle
    /\ feed = "any"

\* what a run and the desktop leave alone
MruFrame ==
    UNCHANGED <<windows, keyFor, hints, previous_window_id, launcher_mode, config,
                state, actions, event, now, panicked, call, ret, tracker, lockVars,
                loopVars, feed>>

\* the end of run_launcher: the result of App::run handled; activate_window
\* succeeds (ok) or fails
MruFinish(kind, ws, hs, target, result, ok) ==
    LET origin == window_of_origin(ws)
        chosen == run_result(result, hs, target)
        activated == chosen # None /\ chosen[1][1] \in 0..(Len(hs) - 1) /\ ok
    IN  /\ session' = Some([kind |-> kind,
                            origin |-> origin,
                            target |-> IF chosen = None THEN None ELSE Some(chosen[1][2]),
                            activated |-> activated,
                            fallback |->
                                IF /\ load_mru_state(mru_file).previous # None
                                   /\ load_mru_state(mru_file).previous[1] \in desktop.open
                                THEN None
                                ELSE Some(hs[1].window_id)])
        /\ IF activated
           THEN /\ mru_file' = save_activated_window(mru_file, origin, chosen[1][2])
                /\ desktop' = [desktop EXCEPT !.focused = Some(chosen[1][2])]
           ELSE UNCHANGED <<mru_file, desktop>>
        /\ MruFrame

\* a run in switcher mode ended by a quick release of Alt
MruQuickSwitch ==
    /\ desktop.open # {}
    /\ \E order \in WindowOrders(desktop.open), ok \in BOOLEAN :
          LET ws == enumerate_windows(order, desktop.focused)
              hs == assign(ws, KeyMap_fg, <<102>>)
              target == quick_switch_target(hs, load_mru_state(mru_file).previous)
          IN  MruFinish("quick", ws, hs, target, released(FALSE, hs, target, 0), ok)

\* a run in which the user picks the window of any hint
MruSelect ==
    /\ desktop.open # {}
    /\ \E order \in WindowOrders(desktop.open), ok \in BOOLEAN :
          LET ws == enumerate_windows(order, desktop.focused)
              hs == assign(ws, KeyMap_fg, <<102>>)
              target == quick_switch_target(hs, load_mru_state(mru_file).previous)
          IN  \E i \in 0..(Len(hs) - 1) :
                  MruFinish("select", ws, hs, target, Window(i), ok)

\* a window closes; the focus, if it was there, moves to another window or
\* to none
MruCloseWindow ==
    /\ \E w \in desktop.open :
          LET rest == desktop.open \ {w} IN
          \E f \in {None} \cup {Some(v) : v \in rest} :
              /\ (desktop.focused # Some(w)) => f = desktop.focused
              /\ desktop' = [open |-> rest, focused |-> f]
    /\ UNCHANGED <<mru_file, session>>
    /\ MruFrame

\* the user focuses another window without the switcher
MruFocus ==
    /\ \E w \in desktop.open :
          /\ desktop.focused # Some(w)
          /\ desktop' = [desktop EXCEPT !.focused = Some(w)]
    /\ UNCHANGED <<mru_file, session>>
    /\ MruFrame

NextMru ==
    \/ MruQuickSwitch
    \/ MruSelect
    \/ MruCloseWindow
    \/ MruFocus

SpecMru == InitMru /\ [][NextMru]_vars

-----------------------------------------------------------------------------
(* The running instance: run_launcher, the event loop of App::run, the       *)
(* listener thread of IpcServer, and the invocations that find the lock held *)

\* the Wayland events one dispatch_pending hands to the handlers of App
LoopWaylandEvents ==
    {KeyPress(Keysym_Return, FALSE), KeyPress(102, FALSE), FrameCallback, AltReleased}

\* the commands an IpcClient sends
IpcCommands == {"CycleForward", "CycleBackward", "Ping"}

\* an instance about to start with a window list of one or more windows, and
\* other invocations, each with the command it will send (--backward or not,
\* or a Ping of is_instance_running)
InitLoop ==
    /\ windows \in {w \in WindowLists({App_fx}, MaxWindows) : w # <<>>}
    /\ keyFor = KeyMap_fg
    /\ \E order \in Orders(bases_of(windows, keyFor)) :
          hints = assign(windows, keyFor, order)
    /\ previous_window_id \in {None, Some(1)}
    /\ launcher_mode \in BOOLEAN
    /\ config \in Configs
    /\ now = 0
    /\ state = initial(launcher_mode, hints, previous_window_id, now)
    /\ actions = <<>>
    /\ event = None
    /\ panicked = FALSE
    /\ call = None
    /\ ret = None
    /\ tracker = TimeoutTracker_new(0)
    /\ LockIdle
    /\ MruIdle
    /\ run = [pc |-> "start", running |-> FALSE, batch |-> 0, cmds |-> <<>>,
              ret |-> None]
    /\ ipc = [socket |-> FALSE, receiver |-> FALSE, chan |-> <<>>, backlog |-> <<>>]
    /\ clients \in [Clients -> {[pc |-> "idle", cmd |-> c, response |-> None] :
                                   c \in IpcCommands}]
    /\ hist = [fed_after_exit |-> FALSE, reads |-> 0, exits |-> 0,
               accepted |-> <<>>, delivered |-> <<>>]
    /\ feed = "any"

LoopFrame ==
    UNCHANGED <<windows, keyFor, hints, previous_window_id, launcher_mode, config,
                call, ret, tracker, lockVars, mruVars, feed>>

\* the instance holds the instance lock: from InstanceLock::acquire until
\* run_launcher returns (main.rs:244)
InstanceLocked == run.pc \notin {"start", "exited"}

\* the listener thread runs: from IpcServer::start until the process ends
ListenerRuns == run.pc \notin {"start", "locked", "exited"}

\* the action list holds Exit
HasExit(acts) == \E i \in 1..Len(acts) : acts[i] = Exit

\* App::process_event(ev), after which the main thread is at pc2 with batch2
\* events dispatched and cmds2 still to process: handle_event, the new state
\* stored, running cleared by an Exit action; a panic ends the process
ProcessEvent(ev, pc2, batch2, cmds2) ==
    /\ \E o \in handle_event(state, ev, config, hints, previous_window_id, now) :
          IF o.panic
          THEN /\ panicked' = TRUE
               /\ run' = [run EXCEPT !.pc = "exited"]
               /\ UNCHANGED <<state, actions, hist>>
          ELSE /\ panicked' = FALSE
               /\ state' = o.new_state
               /\ actions' = o.actions
               /\ run' = [run EXCEPT !.pc = pc2, !.batch = batch2, !.cmds = cmds2,
                                     !.running = IF HasExit(o.actions) THEN FALSE ELSE @]
               /\ hist' = [hist EXCEPT
                             !.fed_after_exit = @ \/ is_exiting(state),
                             !.exits = IF HasExit(o.actions) THEN Min(@ + 1, 2) ELSE @,
                             !.delivered = IF ev.tag \in {"CycleForward", "CycleBackward"}
                                           THEN Append(@, ev.tag) ELSE @]
    /\ event' = Some(ev.tag)

\* run_launcher: InstanceLock::acquire succeeds
RunAcquire ==
    /\ run.pc = "start"
    /\ run' = [run EXCEPT !.pc = "locked"]
    /\ UNCHANGED <<state, actions, event, now, panicked, ipc, clients, hist>>
    /\ LoopFrame

\* run_launcher: IpcServer::start binds the socket and spawns the listener
IpcServer_start ==
    /\ run.pc = "locked"
    /\ run' = [run EXCEPT !.pc = "bound"]
    /\ ipc' = [ipc EXCEPT !.socket = TRUE, !.receiver = TRUE]
    /\ UNCHANGED <<state, actions, event, now, panicked, clients, hist>>
    /\ LoopFrame

\* App::run up to the event loop: running = true
RunEnter ==
    /\ run.pc = "bound"
    /\ run' = [run EXCEPT !.pc = "dispatch_pending", !.running = TRUE]
    /\ UNCHANGED <<state, actions, event, now, panicked, ipc, clients, hist>>
    /\ LoopFrame

\* event_queue.dispatch_pending: one more queued Wayland event is handed to
\* its handler, which calls process_event
LoopDispatchPending ==
    /\ run.pc = "dispatch_pending"
    /\ run.batch < MaxBatch
    /\ \E ev \in LoopWaylandEvents :
          ProcessEvent(ev, "dispatch_pending", run.batch + 1, run.cmds)
    /\ UNCHANGED <<now, ipc, clients>>
    /\ LoopFrame

\* dispatch_pending returns: no more queued events
LoopDispatched ==
    /\ run.pc = "dispatch_pending"
    /\ run' = [run EXCEPT !.pc = "tick", !.batch = 0]
    /\ UNCHANGED <<state, actions, event, now, panicked, ipc, clients, hist>>
    /\ LoopFrame

\* app.process_event(Event::Tick)
LoopTick ==
    /\ run.pc = "tick"
    /\ ProcessEvent(Tick, "ipc", run.batch, run.cmds)
    /\ UNCHANGED <<now, ipc, clients>>
    /\ LoopFrame

\* the commands of the channel are collected with try_recv
LoopIpcCollect ==
    /\ run.pc = "ipc"
    /\ run' = [run EXCEPT !.pc = "ipc_process", !.cmds = ipc.chan]
    /\ ipc' = [ipc EXCEPT !.chan = <<>>]
    /\ UNCHANGED <<state, actions, event, now, panicked, clients, hist>>
    /\ LoopFrame

\* for cmd in ipc_commands: CycleForward and CycleBackward are processed
LoopIpcProcess ==
    /\ run.pc = "ipc_process"
    /\ run.cmds # <<>>
    /\ ProcessEvent([tag |-> Head(run.cmds)], "ipc_process", run.batch, Tail(run.cmds))
    /\ UNCHANGED <<now, ipc, clients>>
    /\ LoopFrame

\* event_loop.dispatch(10ms), during which the clock may advance, and the
\* test of the while loop
LoopPoll ==
    /\ run.pc = "ipc_process"
    /\ run.cmds = <<>>
    /\ run' = [run EXCEPT !.pc = IF run.running THEN "dispatch_pending" ELSE "result"]
    /\ now' \in {now, Min(now + 1, MaxTime)}
    /\ UNCHANGED <<state, actions, event, panicked, ipc, clients, hist>>
    /\ LoopFrame

\* App::run after the loop: activation_result() is read and mapped, the App
\* is dropped and IpcServer::drop removes the socket file
RunResult ==
    /\ run.pc = "result"
    /\ run' = [run EXCEPT !.pc = "returned",
                          !.ret = IF activation_result(state) = None THEN None
                                  ELSE run_result(state.result, hints, previous_window_id)]
    /\ ipc' = [ipc EXCEPT !.socket = FALSE, !.receiver = FALSE, !.chan = <<>>]
    /\ hist' = [hist EXCEPT !.reads = Min(@ + 1, 2)]
    /\ UNCHANGED <<state, actions, event, now, panicked, clients>>
    /\ LoopFrame

\* run_launcher returns: the lock is released and the process ends; the
\* connections nobody accepted are closed
RunExit ==
    /\ run.pc = "returned"
    /\ run' = [run EXCEPT !.pc = "exited"]
    /\ ipc' = [ipc EXCEPT !.backlog = <<>>]
    /\ clients' = [c \in Clients |->
                      IF clients[c].pc = "waiting"
                      THEN [clients[c] EXCEPT !.pc = "done", !.response = Some("Err")]
                      ELSE clients[c]]
    /\ UNCHANGED <<state, actions, event, now, panicked, hist>>
    /\ LoopFrame

\* an invocation of run_launcher finds the lock held (main.rs:249), or
\* is_instance_running is called
ClientStart(c) ==
    /\ clients[c].pc = "idle"
    /\ clients[c].cmd # "Ping" => InstanceLocked
    /\ clients' = [clients EXCEPT ![c].pc = "signal"]
    /\ UNCHANGED <<state, actions, event, now, panicked, run, ipc, hist>>
    /\ LoopFrame

\* IpcClient::send: connect and write the command byte; connect fails when no
\* socket is bound at the path
IpcClient_send(c) ==
    /\ clients[c].pc = "signal"
    /\ IF ipc.socket /\ ListenerRuns
       THEN /\ ipc' = [ipc EXCEPT !.backlog = Append(@, c)]
            /\ clients' = [clients EXCEPT ![c].pc = "waiting"]
       ELSE /\ clients' = [clients EXCEPT ![c].pc = "done", ![c].response = Some("Err")]
            /\ UNCHANGED ipc
    /\ UNCHANGED <<state, actions, event, now, panicked, run, hist>>
    /\ LoopFrame

\* IpcServer::listener_loop: accept, read the byte, answer Pong to a Ping and
\* forward every other command into the channel
listener_loop ==
    /\ ListenerRuns
    /\ ~panicked
    /\ ipc.backlog # <<>>
    /\ LET c == Head(ipc.backlog)
           cmd == clients[c].cmd
           sent == cmd # "Ping" /\ ipc.receiver
           response == IF cmd = "Ping" THEN "Pong"
                       ELSE IF ipc.receiver THEN "Ok" ELSE "Error"
       IN  /\ ipc' = [ipc EXCEPT !.backlog = Tail(@),
                                 !.chan = IF sent THEN Append(@, cmd) ELSE @]
           /\ hist' = [hist EXCEPT !.accepted = IF sent THEN Append(@, cmd) ELSE @]
           /\ clients' = [clients EXCEPT ![c].pc = "done", ![c].response = Some(response)]
    /\ UNCHANGED <<state, actions, event, now, panicked, run>>
    /\ LoopFrame

ClientStarts == \E c \in Clients : ClientStart(c)
ClientSends == \E c \in Clients : IpcClient_send(c)

NextLoop ==
    \/ RunAcquire
    \/ IpcServer_start
    \/ RunEnter
    \/ LoopDispatchPending
    \/ LoopDispatched
    \/ LoopTick
    \/ LoopIpcCollect
    \/ LoopIpcProcess
    \/ LoopPoll
    \/ RunResult
    \/ RunExit
    \/ ClientStarts
    \/ ClientSends
    \/ listener_loop

SpecLoop == InitLoop /\ [][NextLoop]_vars

-----------------------------------------------------------------------------
(* The timed phases: a session in which, from some point on, the run loop    *)
(* delivers Tick events (and FrameCallback events) only, while time advances *)

\* the clock runs on after the last key until every delay has elapsed
LiveHorizon == MaxTime + Max(OverlayDelay, ActivationDelay)

\* the events delivered before that point: the keys f and Tab, the release of
\* Alt, a frame callback, a Tick
LiveEvents ==
    {KeyPress(102, FALSE), KeyPress(Keysym_Tab, FALSE), AltReleased, FrameCallback, Tick}

InitLive ==
    /\ windows \in WindowLists({App_fx}, MaxWindows)
    /\ keyFor = KeyMap_fg
    /\ \E order \in Orders(bases_of(windows, keyFor)) :
          hints = assign(windows, keyFor, order)
    /\ previous_window_id \in {None, Some(1)}
    /\ launcher_mode \in BOOLEAN
    /\ config \in Configs
    /\ now = 0
    /\ state = initial(launcher_mode, hints, previous_window_id, now)
    /\ actions = <<>>
    /\ event = None
    /\ panicked = FALSE
    /\ call = None
    /\ ret = None
    /\ ExtIdle

\* any event is delivered (mod.rs:189-229)
LiveEvent ==
    /\ feed = "any"
    /\ \E ev \in LiveEvents : Dispatch(ev)

\* the clock advances while any event may arrive
LiveEarlyAdvance ==
    /\ feed = "any"
    /\ AdvanceTime

\* from now on no key, release of Alt or IPC command arrives: the loop
\* delivers frame callbacks and Ticks, or Ticks only
LiveQuiet ==
    /\ feed = "any"
    /\ ~panicked
    /\ feed' \in {"timed", "ticks"}
    /\ UNCHANGED <<windows, keyFor, hints, previous_window_id, launcher_mode, config,
                   state, actions, event, now, panicked, call, ret, tracker, lockVars,
                   mruVars, loopVars>>

\* the Tick of a loop iteration (mod.rs:199)
LiveTick ==
    /\ feed # "any"
    /\ Dispatch(Tick)

\* a frame callback (mod.rs:411-420)
LiveFrame ==
    /\ feed = "timed"
    /\ Dispatch(FrameCallback)

\* the clock advances (the 10 ms of event_loop.dispatch, mod.rs:237-239)
LiveAdvance ==
    /\ feed # "any"
    /\ ~panicked
    /\ now < LiveHorizon
    /\ now' = now + 1
    /\ UNCHANGED <<windows, keyFor, hints, previous_window_id, launcher_mode, config,
                   state, actions, event, panicked, call, ret, extVars>>

NextLive ==
    \/ LiveEvent
    \/ LiveEarlyAdvance
    \/ LiveQuiet
    \/ LiveTick
    \/ LiveFrame
    \/ LiveAdvance

\* time advances, every loop iteration delivers a Tick, and frame callbacks
\* keep being delivered when they are delivered at all
SpecLive ==
    /\ InitLive
    /\ [][NextLive]_vars
    /\ WF_vars(LiveAdvance)
    /\ WF_vars(LiveTick)
    /\ WF_vars(LiveFrame)

-----------------------------------------------------------------------------
(* Claims about handle_event, checked under Spec *)

\* C1: handle_event is total: no call, whatever the state (frame_count at its
\* maximum included), the event, the hints and the previous window id, panics.
C1_HandleEventNeverPanics == ~panicked

\* the (state, event) pairs the transition table does not list
Unlisted(s, ev) ==
    \/ s.tag = "BorderOnly" /\ ev.tag = "Configure"
    \/ s.tag = "FullOverlay" /\ ev.tag \in {"Tick", "FrameCallback", "Configure"}
    \/ s.tag = "PendingActivation"
          /\ ev.tag \in {"FrameCallback", "CycleForward", "CycleBackward", "Configure"}
    \/ s.tag = "PendingActivation" /\ ev.tag = "KeyPress"
          /\ ev.keysym \in {Keysym_Tab, Keysym_ISO_Left_Tab, Keysym_Return,
                            Keysym_KP_Enter, Keysym_Up, Keysym_KP_Up, Keysym_Down,
                            Keysym_KP_Down}
    \/ s.tag = "Exiting"

\* C2: for every (state, event) pair the transition table does not list,
\* handle_event returns a state equal to the input state in every field and an
\* empty action list.
C2_UnlistedPairsAreIdentity ==
    \A ev \in Events :
        Unlisted(state, ev)
            => handle_event(state, ev, config, hints, previous_window_id, now)
                   = {Transition(state, <<>>)}

\* C2 witness: an unlisted event (FrameCallback) was handled in
\* PendingActivation, which no transition enters with an empty action list
C2_Witness ==
    /\ state.tag = "PendingActivation"
    /\ event = Some("FrameCallback")
    /\ actions = <<>>

\* C3: Exiting is absorbing: once the machine is in Exiting{result}, every
\* further step leaves it in Exiting with the same result, and no event handled
\* there produces an action (a step that leaves the clock alone is a call of
\* handle_event).
C3_ExitingIsAbsorbing ==
    [][state.tag = "Exiting"
          => /\ state' = state
             /\ ~panicked'
             /\ (now' = now => actions' = <<>>)]_vars

\* C3 witness: an event (a Tick) was handled after the transition into
\* Exiting{Window(1)}, which had returned [Exit]
C3_Witness ==
    /\ state = Exiting(Window(1))
    /\ event = Some("Tick")
    /\ actions = <<>>

-----------------------------------------------------------------------------
(* Claims about the BorderOnly arms, checked under Spec *)

\* the outcomes of handle_event for one event in the current state
Handle(ev) == handle_event(state, ev, config, hints, previous_window_id, now)

\* previous_window_id is given and is the window of the hint at position i
ResolvesTo(i) ==
    /\ previous_window_id # None
    /\ i \in 1..Len(hints)
    /\ hints[i].window_id = previous_window_id[1]

\* previous_window_id resolves to a hint
Resolves == \E i \in 1..Len(hints) : ResolvesTo(i)

\* the (0-based) index of the hint previous_window_id resolves to
ResolvedIndex == (CHOOSE i \in 1..Len(hints) : ResolvesTo(i)) - 1

\* the time elapsed since start_time of the BorderOnly state
Elapsed == now - state.start_time

\* C11: in BorderOnly, a Tick moves to FullOverlay{selected = position of
\* previous_window_id in hints if it resolves, else 0; input empty} with
\* [ScheduleRedraw] if and only if the elapsed time is >= overlay_delay and
\* frame_count >= 2; otherwise the state is unchanged with no actions.
C11_TickOpensOverlay ==
    state.tag = "BorderOnly" =>
        Handle(Tick) =
            IF Elapsed >= config.settings.overlay_delay /\ state.frame_count >= 2
            THEN {Transition(FullOverlay(IF Resolves THEN ResolvedIndex ELSE 0, <<>>),
                             <<ScheduleRedraw>>)}
            ELSE {Transition(state, <<>>)}

\* C11 witness: a Tick in BorderOnly opened the overlay on the previous
\* window, the hint at index 1 (a Tick in FullOverlay returns no action)
C11_Witness ==
    /\ ~launcher_mode
    /\ state = FullOverlay(1, <<>>)
    /\ ResolvesTo(2)
    /\ event = Some("Tick")
    /\ actions = <<ScheduleRedraw>>

\* C12 as stated: in BorderOnly, AltReleased yields Exiting with [Exit]; when
\* elapsed < quick_switch_threshold the result is Window(idx) if
\* previous_window_id resolves to the hint at idx, else Window(0) if hints is
\* non-empty, else QuickSwitch; when elapsed >= quick_switch_threshold the
\* result is Window(0).
C12_QuickSwitchOnlyWithoutHints ==
    state.tag = "BorderOnly" =>
        Handle(AltReleased) =
            {Transition(Exiting(IF Elapsed >= config.settings.quick_switch_threshold
                                THEN Window(0)
                                ELSE IF Resolves THEN Window(ResolvedIndex)
                                ELSE IF hints # <<>> THEN Window(0)
                                ELSE QuickSwitch),
                        <<Exit>>)}

\* C12: in BorderOnly, AltReleased yields Exiting with [Exit]; when elapsed <
\* quick_switch_threshold the result is Window(idx) if a previous_window_id is
\* given and resolves to the hint at idx, Window(0) if one is given and
\* resolves to no hint, and QuickSwitch if none is given, whether or not hints
\* is empty; when elapsed >= quick_switch_threshold the result is Window(0).
C12_QuickSwitchWithoutPreviousId ==
    state.tag = "BorderOnly" =>
        Handle(AltReleased) =
            {Transition(Exiting(IF Elapsed >= config.settings.quick_switch_threshold
                                THEN Window(0)
                                ELSE IF Resolves THEN Window(ResolvedIndex)
                                ELSE IF previous_window_id # None THEN Window(0)
                                ELSE QuickSwitch),
                        <<Exit>>)}

\* C12 witness: with hints and no previous window id, a quick AltReleased
\* exited with QuickSwitch
C12_Witness ==
    /\ hints # <<>>
    /\ previous_window_id = None
    /\ state = Exiting(QuickSwitch)
    /\ event = Some("AltReleased")
    /\ actions = <<Exit>>

\* the Tab keysyms (0xff09 and 0xfe20)
TabKeys == {Keysym_Tab, Keysym_ISO_Left_Tab}

\* the index of the last hint (0 for an empty list)
LastIndex == IF hints = <<>> THEN 0 ELSE Len(hints) - 1

\* in BorderOnly, Tab without shift and CycleForward open the overlay on the
\* hint at index forward, Tab with shift and CycleBackward on the last hint
CyclesOpenOverlayAt(forward) ==
    state.tag = "BorderOnly" =>
        /\ \A k \in TabKeys :
              /\ Handle(KeyPress(k, FALSE))
                    = {Transition(FullOverlay(forward, <<>>), <<ScheduleRedraw>>)}
              /\ Handle(KeyPress(k, TRUE))
                    = {Transition(FullOverlay(LastIndex, <<>>), <<ScheduleRedraw>>)}
        /\ Handle(CycleForward)
              = {Transition(FullOverlay(forward, <<>>), <<ScheduleRedraw>>)}
        /\ Handle(CycleBackward)
              = {Transition(FullOverlay(LastIndex, <<>>), <<ScheduleRedraw>>)}

\* C13 as stated: in BorderOnly, for every hint list, Tab without shift and
\* CycleForward move to FullOverlay with selected_hint_index = 1, Tab with
\* shift and CycleBackward to FullOverlay with the last index; the input is
\* empty and the actions are [ScheduleRedraw].
C13_ForwardSelectsOne == CyclesOpenOverlayAt(1)

\* C13: in BorderOnly, Tab without shift and CycleForward move to FullOverlay
\* with selected_hint_index = 1 when there are two hints or more and 0 when
\* there are fewer, Tab with shift and CycleBackward to FullOverlay with the
\* last index (0 for an empty list); the input is empty and the actions are
\* [ScheduleRedraw].
C13_ForwardSelectsOneIfPresent ==
    CyclesOpenOverlayAt(IF Len(hints) >= 2 THEN 1 ELSE 0)

\* C13 witness: with a single hint, CycleForward in BorderOnly opened the
\* overlay on index 0
C13_Witness ==
    /\ ~launcher_mode
    /\ Len(hints) = 1
    /\ now = 0
    /\ state = FullOverlay(0, <<>>)
    /\ event = Some("CycleForward")
    /\ actions = <<ScheduleRedraw>>

-----------------------------------------------------------------------------
(* Claims about event sequences, checked under Spec *)

\* C17 as stated: over every event sequence from the initial state, the
\* machine exits with Launch(k) only when launch_config(k) exists and no hint
\* of the list has the base letter k.
C17_LaunchOnlyWithoutWindow ==
    (state.tag = "Exiting" /\ state.result.tag = "Launch") =>
        /\ state.result.key \in config.launch_keys
        /\ \A i \in 1..Len(hints) : <<hints[i].hint.base>> # state.result.key

-----------------------------------------------------------------------------
(* Claims about match_input, checked under SpecFn *)

\* a call of match_input with a non-empty input has returned
MatchReturned ==
    /\ call[1].op = "match_input"
    /\ call[1].input # <<>>
    /\ ret # None

\* the positions of the hints whose canonical string is a prefix of the
\* normalized input
HintIsPrefixOfInput(hs, input) ==
    {i \in 1..Len(hs) : starts_with(normalize_input(input), as_string(hs[i].hint))}

\* the positions of the hints of whose canonical string the normalized input is
\* a prefix
InputIsPrefixOfHint(hs, input) ==
    {i \in 1..Len(hs) : starts_with(as_string(hs[i].hint), normalize_input(input))}

\* with cand as the candidates: none gives None, exactly one gives Exact of it
NoneOrExactOf(hs, cand, r) ==
    /\ cand = {} => r = MatchNone
    /\ \A i \in cand :
          cand = {i} => r = MatchExact(hs[i].index, hs[i].window_id)

Hints_f_ff == MakeHints(<<[base |-> 102, count |-> 1], [base |-> 102, count |-> 2]>>)

C5_TwoOrMoreCandidates ==
    /\ MatchReturned =>
          LET hs    == call[1].hints
              cand  == InputIsPrefixOfHint(hs, call[1].input)
              equal == {i \in cand : as_string(hs[i].hint) = normalize_input(call[1].input)}
          IN  Cardinality(cand) >= 2 =>
                 IF equal # {}
                 THEN \E i \in equal : ret[1] = MatchExact(hs[i].index, hs[i].window_id)
                 ELSE /\ ret[1].tag = "Partial"
                      /\ Len(ret[1].indices) = Cardinality(cand)
                      /\ {ret[1].indices[k] : k \in 1..Len(ret[1].indices)}
                            = {hs[i].index : i \in cand}
    /\ (call[1].op = "match_input" /\ ret # None /\ call[1].hints = Hints_f_ff) =>
          /\ call[1].input = <<102>> => ret[1] = MatchExact(0, 1)
          /\ call[1].input = <<102, 102>> => ret[1] = MatchExact(1, 2)
          /\ call[1].input = <<120>> => ret[1] = MatchNone
          /\ call[1].input = <<>> => ret[1] = MatchPartial(<<0, 1>>)

\* C5 witness: with the hints "f" and "ff", both candidates for the input "f",
\* match_input returned Exact of "f"
C5_Witness ==
    /\ MatchReturned
    /\ call[1].hints = Hints_f_ff
    /\ call[1].input = <<102>>
    /\ ret[1] = MatchExact(0, 1)

-----------------------------------------------------------------------------
(* Claims about assign, checked under SpecFn *)

\* a call of assign has returned
AssignReturned == call[1].op = "assign" /\ ret # None

\* the 1-indexed rank of window i among the windows of its base letter
RankInGroup(ws, key_for_app, i) ==
    Cardinality({j \in 1..i : base_for(ws[j], key_for_app) = base_for(ws[i], key_for_app)})

\* C6 as stated: the n-th window (1-indexed, in window order) of each base
\* letter's group receives the hint that is the base letter repeated n times,
\* for every window list and every key_for_app mapping.
C6_NthWindowGetsBaseRepeated ==
    AssignReturned =>
        LET ws == call[1].windows
            kf == call[1].key_for_app
        IN  \A i \in 1..Len(ws) :
               \E k \in 1..Len(ret[1]) :
                  /\ ret[1][k].window_id = ws[i].id
                  /\ as_string(ret[1][k].hint)
                        = repeat(base_for(ws[i], kf), RankInGroup(ws, kf, i))

C38_HintStringsDistinct ==
    AssignReturned =>
        /\ \A i, j \in 1..Len(ret[1]) :
              i # j => as_string(ret[1][i].hint) # as_string(ret[1][j].hint)
        /\ \A i \in 1..Len(ret[1]) :
              match_input(ret[1], as_string(ret[1][i].hint))
                  = MatchExact(ret[1][i].index, ret[1][i].window_id)

\* the inputs typed against the hints of assign: f F x 2, one character or more
TypedInputs == Strings({102, 70, 120, 50}, MaxInputLen) \ {<<>>}

\* C39: for every hint list produced by assign, match_input on a non-empty
\* input never returns Partial: the result is Exact or None, so that no typed
\* character takes a Partial transition of the state machine.
C39_NeverPartial ==
    AssignReturned =>
        \A input \in TypedInputs : match_input(ret[1], input).tag \in {"Exact", "None"}

\* C39 witness: assign returned the hints f, ff, fff; the input "f" has three
\* candidates and is the Exact match of the first
C39_Witness ==
    /\ AssignReturned
    /\ Len(ret[1]) = 3
    /\ \A i \in 1..3 : ret[1][i].hint = [base |-> 102, count |-> i]
    /\ Len(matching_hints(ret[1], <<102>>)) = 3
    /\ match_input(ret[1], <<102>>) = MatchExact(0, ret[1][1].window_id)

-----------------------------------------------------------------------------
(* Claims about normalize_input and HintSequence, checked under SpecFn *)

\* the number of trailing ASCII digits of s
TrailingDigits(s) ==
    CHOOSE k \in 0..Len(s) :
        /\ \A i \in (Len(s) - k + 1)..Len(s) : is_ascii_digit(s[i])
        /\ k < Len(s) => ~is_ascii_digit(s[Len(s) - k])

\* s is a non-empty run of one ASCII letter
IsLetterRun(s) ==
    /\ s # <<>>
    /\ is_ascii_alphabetic(s[1])
    /\ \A i \in 1..Len(s) : s[i] = s[1]

\* what C8 says normalize_input returns
NormalizeAsClaimed(input) ==
    LET lower   == to_lowercase(input)
        k       == TrailingDigits(lower)
        letters == SubSeq(lower, 1, Len(lower) - k)
        n       == parse_usize(SubSeq(lower, Len(lower) - k + 1, Len(lower)))
    IN  IF k > 0 /\ IsLetterRun(letters) /\ n >= 1 /\ n <= 26
        THEN repeat(letters[1], n)
        ELSE lower

\* C8 as stated: normalize_input maps a run of one repeated letter followed by
\* a decimal number n to the letter repeated n times when 1 <= n <= 26; when n
\* is 0 or above 26, or what precedes the number is not a run of one repeated
\* letter, it returns the input only lower-cased; an expanded result has at
\* most 26 characters.
C8_NormalizeInputAsClaimed ==
    (call[1].op = "normalize_input" /\ ret # None) =>
        /\ ret[1] = NormalizeAsClaimed(call[1].input)
        /\ ret[1] # to_lowercase(call[1].input) => Len(ret[1]) <= 26

\* C9 as stated: from_repeated(s) returns Some if and only if s is a non-empty
\* run of one ASCII letter, case-insensitively, and
\* from_repeated(seq.as_string()) = Some(seq) for every seq that
\* HintSequence::new(base, count) constructs.
C9_FromRepeatedAsClaimed ==
    /\ (call[1].op = "from_repeated" /\ ret # None) =>
          (ret[1] # None <=>
              IsLetterRun([i \in 1..Len(call[1].s) |-> to_ascii_lowercase(call[1].s[i])]))
    /\ (call[1].op = "new" /\ ret # None) => ret[1].parsed = Some(ret[1].seq)

-----------------------------------------------------------------------------
(* Claims about cycle_index, checked under SpecFn *)

\* C10: for every len > 0 and every i in [0, len): cycle_index backward of
\* cycle_index forward of i is i, forward wraps len-1 to 0, backward wraps 0 to
\* len-1, and the result lies in [0, len); and cycle_index(i, 0, dir) = 0 for
\* every i and direction.
C10_CycleIndex ==
    (call[1].op = "cycle_index" /\ ret # None) =>
        LET i   == call[1].current
            len == call[1].len
            r   == ret[1].result
        IN  /\ (len > 0 /\ i < len) =>
                  /\ ret[1].there_and_back = i
                  /\ r >= 0 /\ r < len
                  /\ (call[1].forward /\ i = len - 1) => r = 0
                  /\ (~call[1].forward /\ i = 0) => r = len - 1
            /\ len = 0 => r = 0

\* C10 witness: cycle_index(2, 3, true) returned 0, the wrap at the end
C10_Witness ==
    /\ call[1].op = "cycle_index"
    /\ call[1].current = 2 /\ call[1].len = 3 /\ call[1].forward
    /\ ret # None
    /\ ret[1].result = 0
    /\ ret[1].there_and_back = 2

-----------------------------------------------------------------------------
(* Claims about the key arms of handle_event, checked under SpecFn on the *)
(* calls of handle_event                                                  *)

\* a call of handle_event in a state of the given kind has returned
HandleReturned(tag) ==
    /\ call[1].op = "handle_event"
    /\ call[1].self.tag = tag
    /\ ret # None

\* the printable ASCII keysyms
IsPrintable(k) == k >= 32 /\ k <= 126

\* the event of the call is the press of a printable key
PrintableKeyPressed ==
    call[1].ev.tag = "KeyPress" /\ IsPrintable(call[1].ev.keysym)

\* a TimeoutTracker of activation_delay started at the instant of the call
StartedAtCall ==
    [started_at |-> Some(call[1].t), duration |-> config.settings.activation_delay]

\* the input of the call's state with the key's character appended
NewInput == Append(call[1].self.input, call[1].ev.keysym)

\* the hints "ff" and "fff"
Hints_ff_fff == MakeHints(<<[base |-> 102, count |-> 2], [base |-> 102, count |-> 3]>>)

\* C14: in BorderOnly, a printable ASCII key c never leaves the machine in
\* BorderOnly: on Exact it gives PendingActivation{matched index, input c,
\* timeout started with activation_delay} with [ScheduleRedraw]; on Partial
\* FullOverlay{0, c} with [ScheduleRedraw]; on None Exiting{Launch(c)} with
\* [Exit] if a launch config exists for c, else FullOverlay{0, empty} with
\* [ScheduleRedraw]; any other key that is neither Tab nor Escape gives
\* FullOverlay{0, empty} with [ScheduleRedraw].
C14_BorderOnlyKeyPress ==
    (HandleReturned("BorderOnly") /\ call[1].ev.tag = "KeyPress") =>
        LET c == call[1].ev.keysym
            m == match_input(call[1].hints, <<c>>)
        IN  IF IsPrintable(c)
            THEN /\ ~ret[1].panic
                 /\ ret[1].new_state.tag # "BorderOnly"
                 /\ ret[1] =
                       IF m.tag = "Exact"
                       THEN Transition(PendingActivation(m.index, <<c>>, StartedAtCall),
                                       <<ScheduleRedraw>>)
                       ELSE IF m.tag = "Partial"
                       THEN Transition(FullOverlay(0, <<c>>), <<ScheduleRedraw>>)
                       ELSE IF <<c>> \in config.launch_keys
                       THEN Transition(Exiting(Launch(<<c>>)), <<Exit>>)
                       ELSE Transition(FullOverlay(0, <<>>), <<ScheduleRedraw>>)
            ELSE (c \notin TabKeys /\ c # Keysym_Escape)
                    => ret[1] = Transition(FullOverlay(0, <<>>), <<ScheduleRedraw>>)

\* C14 witness: in BorderOnly with the hints "ff" and "fff", the key 'f' was a
\* partial match and gave FullOverlay{0, "f"}
C14_Witness ==
    /\ HandleReturned("BorderOnly")
    /\ call[1].hints = Hints_ff_fff
    /\ call[1].ev = KeyPress(102, FALSE)
    /\ ret[1] = Transition(FullOverlay(0, <<102>>), <<ScheduleRedraw>>)

\* C15: in FullOverlay, a printable ASCII key c is appended to input and the
\* result matched: Exact moves to PendingActivation{matched index, old input +
\* c, timeout started with activation_delay} with [ScheduleRedraw]; Partial
\* stays in FullOverlay with selected_hint_index unchanged and input = old
\* input + c, with [ScheduleRedraw].
C15_OverlayCharacterMatches ==
    (HandleReturned("FullOverlay") /\ PrintableKeyPressed) =>
        LET m == match_input(call[1].hints, NewInput) IN
        /\ m.tag = "Exact" =>
              ret[1] = Transition(PendingActivation(m.index, NewInput, StartedAtCall),
                                  <<ScheduleRedraw>>)
        /\ m.tag = "Partial" =>
              ret[1] = Transition(FullOverlay(call[1].self.selected_hint_index, NewInput),
                                  <<ScheduleRedraw>>)

\* C15 witness: in FullOverlay{1, ""} with the hints "ff" and "fff", the key
\* 'f' was a partial match: the selection stayed at 1 and the input became "f"
C15_Witness ==
    /\ HandleReturned("FullOverlay")
    /\ call[1].self = FullOverlay(1, <<>>)
    /\ call[1].hints = Hints_ff_fff
    /\ call[1].ev = KeyPress(102, FALSE)
    /\ ret[1] = Transition(FullOverlay(1, <<102>>), <<ScheduleRedraw>>)

\* C16: in FullOverlay, a printable key c whose appended input matches no hint
\* and for which no launch config exists leaves selected_hint_index and input
\* as they were and emits no action; the same situation in BorderOnly resets
\* to FullOverlay{0, empty} and emits [ScheduleRedraw].
C16_OverlayRevertsSilently ==
    /\ (/\ HandleReturned("FullOverlay")
        /\ PrintableKeyPressed
        /\ match_input(call[1].hints, NewInput) = MatchNone
        /\ <<call[1].ev.keysym>> \notin config.launch_keys)
          => ret[1] = Transition(FullOverlay(call[1].self.selected_hint_index,
                                             call[1].self.input), <<>>)
    /\ (/\ HandleReturned("BorderOnly")
        /\ PrintableKeyPressed
        /\ match_input(call[1].hints, <<call[1].ev.keysym>>) = MatchNone
        /\ <<call[1].ev.keysym>> \notin config.launch_keys)
          => ret[1] = Transition(FullOverlay(0, <<>>), <<ScheduleRedraw>>)

\* C16 witness: in FullOverlay{1, "f"} with the single hint "f", the key 'f'
\* (input "ff": no match; no launch config for "f") returned the state as it
\* was and no action
C16_Witness ==
    /\ HandleReturned("FullOverlay")
    /\ call[1].self = FullOverlay(1, <<102>>)
    /\ call[1].hints = MakeHints(<<[base |-> 102, count |-> 1]>>)
    /\ call[1].ev = KeyPress(102, FALSE)
    /\ <<102>> \notin config.launch_keys
    /\ ret[1] = Transition(FullOverlay(1, <<102>>), <<>>)

\* C20: in PendingActivation, a printable key whose appended input matches no
\* hint leaves the state unchanged: same hint_index, same input, same timeout
\* start, no actions, and no launch even if a launch config exists for the key.
C20_PendingIgnoresUnmatchedKey ==
    (/\ HandleReturned("PendingActivation")
     /\ PrintableKeyPressed
     /\ match_input(call[1].hints, NewInput) = MatchNone)
        => ret[1] = Transition(call[1].self, <<>>)

\* C20 witness: in PendingActivation{0, "f"} started at 0, the key 'x', for
\* which a launch config exists, pressed activation_delay later, returned the
\* state as it was and no action
C20_Witness ==
    /\ HandleReturned("PendingActivation")
    /\ call[1].self = PendingActivation(0, <<102>>, [started_at |-> Some(0),
                                                     duration |-> ActivationDelay])
    /\ call[1].t = ActivationDelay
    /\ call[1].ev = KeyPress(120, FALSE)
    /\ <<120>> \in config.launch_keys
    /\ call[1].hints # <<>>
    /\ ret[1] = Transition(call[1].self, <<>>)

\* the instants at which a later Tick can arrive
LaterInstants == 0..(MaxTime + ActivationDelay)

\* a Tick on the state s, at any instant, returns s and no action
TickDoesNothing(s) ==
    \A t \in LaterInstants :
        handle_event(s, Tick, config, call[1].hints, None, t) = {Transition(s, <<>>)}

\* C21: leaving PendingActivation{hint_index, input} for FullOverlay keeps the
\* matched hint selected: BackSpace gives FullOverlay{hint_index, input without
\* its last character}, a printable key with a Partial match gives
\* FullOverlay{hint_index, input + key}; both emit [ScheduleRedraw], and a Tick
\* on the state returned, at any later instant, activates nothing.
C21_LeavingPendingKeepsSelection ==
    (HandleReturned("PendingActivation") /\ call[1].ev.tag = "KeyPress") =>
        LET self == call[1].self
            input == self.input
            popped == IF input = <<>> THEN <<>> ELSE SubSeq(input, 1, Len(input) - 1)
        IN  /\ call[1].ev.keysym = Keysym_BackSpace =>
                  /\ ret[1] = Transition(FullOverlay(self.hint_index, popped),
                                         <<ScheduleRedraw>>)
                  /\ TickDoesNothing(ret[1].new_state)
            /\ (PrintableKeyPressed /\ match_input(call[1].hints, NewInput).tag = "Partial") =>
                  /\ ret[1] = Transition(FullOverlay(self.hint_index, NewInput),
                                         <<ScheduleRedraw>>)
                  /\ TickDoesNothing(ret[1].new_state)

\* C21 witness: in PendingActivation{1, "f"} started at 0, BackSpace pressed
\* activation_delay later returned FullOverlay{1, ""} and a redraw
C21_Witness ==
    /\ HandleReturned("PendingActivation")
    /\ call[1].self = PendingActivation(1, <<102>>, [started_at |-> Some(0),
                                                     duration |-> ActivationDelay])
    /\ call[1].t = ActivationDelay
    /\ call[1].ev = KeyPress(Keysym_BackSpace, FALSE)
    /\ call[1].hints # <<>>
    /\ ret[1] = Transition(FullOverlay(1, <<>>), <<ScheduleRedraw>>)

\* the events that commit the current target: AltReleased, Return, KP_Enter
CommitEvents ==
    {AltReleased} \cup {KeyPress(k, FALSE) : k \in {Keysym_Return, Keysym_KP_Enter}}

\* C22: AltReleased commits the current target at once: in FullOverlay{selected,
\* input} AltReleased, Return and KP_Enter give Exiting{Window(selected)} with
\* [Exit] whatever the input is, and in PendingActivation{hint_index}
\* AltReleased gives Exiting{Window(hint_index)} with [Exit], elapsed timeout
\* or not.
C22_AltReleasedCommits ==
    /\ (HandleReturned("FullOverlay") /\ call[1].ev \in CommitEvents) =>
          ret[1] = Transition(Exiting(Window(call[1].self.selected_hint_index)), <<Exit>>)
    /\ (HandleReturned("PendingActivation") /\ call[1].ev = AltReleased) =>
          ret[1] = Transition(Exiting(Window(call[1].self.hint_index)), <<Exit>>)

\* C22 witness: in PendingActivation{1, "f"} started at 0, AltReleased at 0,
\* before activation_delay has elapsed, returned Exiting{Window(1)} and [Exit]
C22_Witness ==
    /\ HandleReturned("PendingActivation")
    /\ call[1].self = PendingActivation(1, <<102>>, [started_at |-> Some(0),
                                                     duration |-> ActivationDelay])
    /\ call[1].t = 0
    /\ ~has_elapsed(call[1].self.timeout, call[1].t)
    /\ call[1].ev = AltReleased
    /\ ret[1] = Transition(Exiting(Window(1)), <<Exit>>)

-----------------------------------------------------------------------------
(* Claims about PendingActivation over event sequences, checked under Spec *)

\* a TimeoutTracker of activation_delay started now
StartedNow == [started_at |-> Some(now), duration |-> config.settings.activation_delay]

\* the hints are two, of the strings b and bb
HintsAre_b_bb(b) ==
    /\ Len(hints) = 2
    /\ hints[1].hint = [base |-> b, count |-> 1]
    /\ hints[2].hint = [base |-> b, count |-> 2]

\* C18: in PendingActivation{hint_index, input, timeout}, a Tick yields
\* Exiting{Window(hint_index)} with [Exit] if and only if the time since the
\* timeout was started is >= activation_delay; otherwise the state is
\* unchanged with no actions. With the hints f and ff, typing 'f' in
\* FullOverlay with an empty input gives PendingActivation{hint_index 0}.
C18_TickActivatesAfterDelay ==
    /\ state.tag = "PendingActivation" =>
          /\ state.timeout.started_at # None
          /\ Handle(Tick) =
                IF now - state.timeout.started_at[1] >= config.settings.activation_delay
                THEN {Transition(Exiting(Window(state.hint_index)), <<Exit>>)}
                ELSE {Transition(state, <<>>)}
    /\ (state.tag = "FullOverlay" /\ state.input = <<>> /\ HintsAre_b_bb(102)) =>
          Handle(KeyPress(102, FALSE))
              = {Transition(PendingActivation(0, <<102>>, StartedNow), <<ScheduleRedraw>>)}

\* C18 witness: with the hints f and ff, a Tick after activation_delay
\* activated the window of "f" (only the Tick of PendingActivation returns
\* [Exit])
C18_Witness ==
    /\ HintsAre_b_bb(102)
    /\ state = Exiting(Window(0))
    /\ event = Some("Tick")
    /\ actions = <<Exit>>
    /\ now >= config.settings.activation_delay

\* C19: in PendingActivation, a printable key that produces a new Exact match
\* yields PendingActivation with hint_index = the new match, the extended
\* input and a timeout restarted at that keystroke, with [ScheduleRedraw];
\* hence a Tick on that state does nothing earlier than activation_delay after
\* the keystroke, and from then on it activates the new match.
C19_Debounce ==
    state.tag = "PendingActivation" =>
        \A ev \in KeyEvents :
            LET new_input == Append(state.input, ev.keysym)
                m == match_input(hints, new_input)
                restarted == PendingActivation(m.index, new_input, StartedNow)
            IN  (IsPrintable(ev.keysym) /\ m.tag = "Exact") =>
                    /\ Handle(ev) = {Transition(restarted, <<ScheduleRedraw>>)}
                    /\ \A t \in now..(MaxTime + ActivationDelay) :
                          handle_event(restarted, Tick, config, hints,
                                       previous_window_id, t) =
                              IF t - now >= config.settings.activation_delay
                              THEN {Transition(Exiting(Window(m.index)), <<Exit>>)}
                              ELSE {Transition(restarted, <<>>)}

\* C19 witness: with the hints g and gg, a key typed after the clock had
\* advanced gave the exact match "gg" and a timeout restarted at that instant
C19_Witness ==
    /\ HintsAre_b_bb(103)
    /\ now > 0
    /\ state = PendingActivation(1, <<103, 103>>, StartedNow)
    /\ event = Some("KeyPress")
    /\ actions = <<ScheduleRedraw>>

-----------------------------------------------------------------------------
(* Claims about Escape, checked under Spec *)

\* C23: a KeyPress of Escape in BorderOnly, FullOverlay or PendingActivation,
\* whatever the fields of the state, the hints and the shift flag, yields
\* Exiting{Cancelled} with actions exactly [Exit].
C23_EscapeCancels ==
    state.tag \in {"BorderOnly", "FullOverlay", "PendingActivation"} =>
        \A shift \in BOOLEAN :
            Handle(KeyPress(Keysym_Escape, shift))
                = {Transition(Exiting(Cancelled), <<Exit>>)}

\* C23 witness: a key press ended the session as Cancelled after the clock had
\* advanced, with two hints
C23_Witness ==
    /\ state = Exiting(Cancelled)
    /\ event = Some("KeyPress")
    /\ actions = <<Exit>>
    /\ Len(hints) = 2
    /\ now > 0

-----------------------------------------------------------------------------
(* Claims about the selection in FullOverlay, checked under SpecFn on the *)
(* calls of handle_event                                                  *)

\* the events that cycle the selection in the given direction
CycleEvents(forward) ==
    {KeyPress(k, ~forward) : k \in TabKeys}
        \cup {KeyPress(k, shift) :
                 k \in IF forward THEN {Keysym_Down, Keysym_KP_Down}
                       ELSE {Keysym_Up, Keysym_KP_Up},
                 shift \in BOOLEAN}
        \cup {IF forward THEN CycleForward ELSE CycleBackward}

\* the state after n consecutive CycleForward events from s, with the call's
\* hints
RECURSIVE ForwardSteps(_, _)
ForwardSteps(s, n) ==
    IF n = 0 THEN s
    ELSE ForwardSteps(
             (CHOOSE o \in handle_event(s, CycleForward, config, call[1].hints,
                                        None, call[1].t) : TRUE).new_state,
             n - 1)

\* C24: in FullOverlay, Tab (forward unless shift), Down/KP_Down and
\* CycleForward (forward), Up/KP_Up and CycleBackward (backward) replace
\* selected_hint_index by cycle_index(selected, len(hints), direction), leave
\* input unchanged, stay in FullOverlay and emit [ScheduleRedraw]; len(hints)
\* consecutive forward steps from a selection within the hints return to it.
C24_OverlayCycles ==
    HandleReturned("FullOverlay") =>
        \A forward \in BOOLEAN :
            call[1].ev \in CycleEvents(forward) =>
                /\ ret[1] =
                      Transition(FullOverlay(cycle_index(call[1].self.selected_hint_index,
                                                         Len(call[1].hints), forward),
                                             call[1].self.input),
                                 <<ScheduleRedraw>>)
                /\ call[1].self.selected_hint_index < Max(Len(call[1].hints), 1) =>
                      ForwardSteps(call[1].self, Len(call[1].hints)) = call[1].self

\* C24 witness: with three hints, CycleBackward in FullOverlay{0, "f"} wrapped
\* the selection to 2 and kept the input
C24_Witness ==
    /\ HandleReturned("FullOverlay")
    /\ Len(call[1].hints) = 3
    /\ call[1].self = FullOverlay(0, <<102>>)
    /\ call[1].ev = CycleBackward
    /\ ret[1] = Transition(FullOverlay(2, <<102>>), <<ScheduleRedraw>>)

-----------------------------------------------------------------------------
(* Claims about AppState::initial, checked under SpecFn *)

\* a call of initial has returned
InitialReturned == call[1].op = "initial" /\ ret # None

\* the positions (from 0) of the hints of the previous window of the call
PreviousPositions ==
    IF call[1].previous_window_id = None THEN {}
    ELSE {i \in 0..(Len(call[1].hints) - 1) :
             call[1].hints[i + 1].window_id = call[1].previous_window_id[1]}

\* C25: initial(launcher_mode, hints, previous_window_id) returns
\* BorderOnly{frame_count 0} when launcher_mode is false, and FullOverlay{input
\* empty, selected = position of previous_window_id in hints} when
\* launcher_mode is true, with selected = 0 when previous_window_id is absent
\* or matches no hint.
C25_Initial ==
    InitialReturned =>
        IF call[1].launcher_mode
        THEN /\ ret[1].tag = "FullOverlay"
             /\ ret[1].input = <<>>
             /\ IF PreviousPositions = {}
                THEN ret[1].selected_hint_index = 0
                ELSE ret[1].selected_hint_index \in PreviousPositions
        ELSE ret[1] = BorderOnly(call[1].t, 0)

\* C25 witness: in launcher mode with the hints of the windows 3 and 1 and the
\* previous window 1, initial returned FullOverlay{1, ""}
C25_Witness ==
    /\ InitialReturned
    /\ call[1].launcher_mode
    /\ Len(call[1].hints) = 2
    /\ call[1].hints[1].window_id = 3
    /\ call[1].hints[2].window_id = 1
    /\ call[1].previous_window_id = Some(1)
    /\ ret[1] = FullOverlay(1, <<>>)

-----------------------------------------------------------------------------
(* Claims about the result of App::run, checked under SpecFn *)

\* the call of the result mapping has returned
RunResultReturned == call # None /\ call[1].op = "run_result" /\ ret # None

\* the first hint of the call, as a returned pair, or None without hints
FirstHintOrNone ==
    IF call[1].hints # <<>> THEN Some(<<0, call[1].hints[1].window_id>>) ELSE None

\* C33: App::run returns (idx, hints[idx].window_id) for Window(idx) with
\* idx < len(hints); (0, hints[0].window_id) for an out-of-range idx if hints
\* is non-empty and None otherwise; for QuickSwitch the previous window's
\* (position, id) if it resolves, else (0, hints[0].window_id), else None;
\* (usize::MAX, key) for Launch(key); None for Cancelled or no result. Hence a
\* returned index other than usize::MAX is < len(hints) and paired with that
\* hint's window id.
C33_RunResultGuarded ==
    RunResultReturned =>
        LET r == call[1].result
            hs == call[1].hints
        IN  /\ (r = None \/ r[1].tag = "Cancelled") => ret[1] = None
            /\ (r # None /\ r[1].tag = "Window" /\ r[1].index < Len(hs)) =>
                  ret[1] = Some(<<r[1].index, hs[r[1].index + 1].window_id>>)
            /\ (r # None /\ r[1].tag = "Window" /\ r[1].index >= Len(hs)) =>
                  ret[1] = FirstHintOrNone
            /\ (r # None /\ r[1].tag = "QuickSwitch") =>
                  IF PreviousPositions # {}
                  THEN \E i \in PreviousPositions :
                          ret[1] = Some(<<i, hs[i + 1].window_id>>)
                  ELSE ret[1] = FirstHintOrNone
            /\ (r # None /\ r[1].tag = "Launch") => ret[1] = Some(<<"MAX", r[1].key>>)
            /\ (r # None /\ r[1].tag # "Launch" /\ ret[1] # None) =>
                  /\ ret[1][1][1] < Len(hs)
                  /\ ret[1][1][2] = hs[ret[1][1][1] + 1].window_id

\* C33 witness: the final state was Exiting{Window(2)} with the hints of the
\* windows 3 and 1, and App::run returned (0, window 3)
C33_Witness ==
    /\ RunResultReturned
    /\ call[1].result = Some(Window(2))
    /\ Len(call[1].hints) = 2
    /\ call[1].hints[1].window_id = 3
    /\ call[1].hints[2].window_id = 1
    /\ ret[1] = Some(<<0, 3>>)

-----------------------------------------------------------------------------
(* Claims about the drawn overlay, checked under SpecFn *)

\* the session of the call was drawn, as a full overlay with rows
DrawnFull ==
    /\ call # None /\ call[1].op = "draw" /\ ret # None
    /\ ret[1].drawn.full
    /\ ret[1].drawn.selected # None

\* C34: whenever the full overlay is drawn, the row shown as selected is the
\* hint whose original index equals the state's selected_hint_index() (in
\* PendingActivation, the matched hint), for every input and so for every
\* filtered subset of visible hints.
C34_SelectedRowIsSelection ==
    DrawnFull =>
        ret[1].drawn.rows[ret[1].drawn.selected[1] + 1] = selected_index_of(ret[1].state)

-----------------------------------------------------------------------------
(* Claims about TimeoutTracker, checked under SpecTimer *)

\* what the claim says of the observers of a tracker t at the instant n
ObserversAsClaimed(t, n) ==
    LET started == t.started_at # None
        elapsed == started /\ n - t.started_at[1] >= t.duration
    IN  /\ has_elapsed(t, n) = elapsed
        /\ is_active(t, n) = (started /\ ~elapsed)
        /\ (~started \/ elapsed) => remaining(t, n) = None

\* C26: for a TimeoutTracker after any sequence of start, reset and cancel:
\* has_elapsed() is true iff it is started and now - start >= duration; it is
\* false while unstarted or after cancel(); start() and reset() both set start
\* to now (re-arming an elapsed tracker); is_active() is true iff started and
\* not elapsed; remaining() is None when unstarted or elapsed.
C26_TimeoutTracker ==
    [][/\ ObserversAsClaimed(tracker, now)
       /\ ObserversAsClaimed(tracker', now')
       /\ event \in {None, Some("cancel")} =>
             /\ tracker.started_at = None
             /\ ~has_elapsed(tracker, now)
       /\ (now' = now /\ event' \in {Some("start"), Some("reset")}) =>
             /\ tracker'.started_at = Some(now)
             /\ tracker'.duration = tracker.duration
             /\ has_elapsed(tracker', now') = (tracker.duration = 0)
       /\ (now' = now /\ event' = Some("cancel")) =>
             /\ tracker'.started_at = None
             /\ ~has_elapsed(tracker', now')]_vars

\* C26 witness: a tracker of duration 1 was reset at the instant 2, later than
\* its duration after any earlier start, and is active with 1 remaining
C26_Witness ==
    /\ event = Some("reset")
    /\ now = 2
    /\ tracker = [started_at |-> Some(2), duration |-> 1]
    /\ is_active(tracker, now)
    /\ remaining(tracker, now) = Some(1)

-----------------------------------------------------------------------------
(* Claims about handle_event as a function, checked under Spec *)

\* C27: handle_event is a pure function of its arguments: two calls with equal
\* (state, event, config, hints, previous_window_id), the one made now and the
\* one made at any later instant, return equal new states and equal action
\* lists.
C27_HandleEventIsPure ==
    \A ev \in Events : \A t \in now..MaxTime :
        handle_event(state, ev, config, hints, previous_window_id, t) = Handle(ev)

-----------------------------------------------------------------------------
(* Claims about InstanceLock, checked under SpecLock *)

\* the processes whose acquire returned Ok and whose lock is not yet dropped
LockHolders == {p \in Procs : procs[p].pc = "held"}

\* C28: at most one process holds the InstanceLock at any time, under every
\* interleaving of open, flock, unlink-on-drop and close among the processes.
C28_AtMostOneHolder == Cardinality(LockHolders) <= 1

-----------------------------------------------------------------------------
(* Claims about the two modes, checked under SpecFn *)

\* both modes have been released quickly: before quick_switch_threshold
QuickReleaseReturned ==
    /\ call[1].op = "quick_release"
    /\ call[1].t < config.settings.quick_switch_threshold
    /\ ret # None

\* C29 as stated: for the same hints and previous_window_id, launcher mode
\* followed immediately by AltReleased yields the same ActivationResult as
\* switcher mode followed by a quick AltReleased, for every
\* previous_window_id: resolving, not resolving, and absent.
C29_ModesAgree ==
    QuickReleaseReturned => ret[1].launcher = ret[1].switcher

\* C29 amended: the two ActivationResults are equal for every
\* previous_window_id that is present, resolving or not; with none, launcher
\* mode yields Window(0) and switcher mode QuickSwitch; in every case App::run
\* resolves the two results to the same target.
C29_ModesAgreeOnTarget ==
    QuickReleaseReturned =>
        /\ call[1].previous_window_id # None => ret[1].launcher = ret[1].switcher
        /\ call[1].previous_window_id = None =>
              /\ ret[1].launcher = Window(0)
              /\ ret[1].switcher = QuickSwitch
        /\ ret[1].launcher_target = ret[1].switcher_target

\* C29 witness: with the hints of the windows 3 and 1 and the previous window
\* 1, both modes released at once returned Window(1), resolved to window 1
C29_Witness ==
    /\ QuickReleaseReturned
    /\ Len(call[1].hints) = 2
    /\ call[1].hints[1].window_id = 3
    /\ call[1].hints[2].window_id = 1
    /\ call[1].previous_window_id = Some(1)
    /\ ret[1].launcher = Window(1)
    /\ ret[1].switcher = Window(1)
    /\ ret[1].launcher_target = Some(<<1, 1>>)

-----------------------------------------------------------------------------
(* Claims about the MRU state across runs, checked under SpecMru *)

\* the step is a run that activated a window
RunActivated == session' # None /\ session' # session /\ session'[1].activated

\* the last run switched from a window A to another window B, the focus is
\* still on B and A is still open; the step is a quick switch that activates a
\* window
ToggleStep ==
    /\ session # None /\ session[1].activated
    /\ session[1].origin # None /\ session[1].origin # session[1].target
    /\ desktop.focused = session[1].target
    /\ session[1].origin[1] \in desktop.open
    /\ RunActivated
    /\ session'[1].kind = "quick"

-----------------------------------------------------------------------------
(* Claims about the event loop of App::run, checked under SpecLoop *)

\* C31: once the state machine has reached Exiting, the run loop feeds no
\* further event to handle_event (no Tick, no IPC cycle command, no queued
\* keyboard event) and reads activation_result() exactly once.
C31_NothingFedAfterExit ==
    /\ ~hist.fed_after_exit
    /\ hist.reads <= 1
    /\ run.pc \in {"returned", "exited"} /\ ~panicked => hist.reads = 1

\* the sequence a is a prefix of the sequence b
IsPrefix(a, b) == Len(a) <= Len(b) /\ \A i \in 1..Len(a) : a[i] = b[i]

\* the invocation c found the lock held and its IpcClient::send has returned
Signalled(c) == clients[c].pc = "done" /\ clients[c].cmd # "Ping"

\* C32: when a second invocation fails to acquire the instance lock, under
\* every interleaving with the first instance's start-up and shutdown the
\* sender gets an Ok acknowledgement and the state machine receives exactly
\* one CycleForward (CycleBackward) for it; a Ping is answered with Pong and
\* is never forwarded; forwarded commands reach the state machine in the
\* order they were accepted.
C32_SecondInvocationCycles ==
    /\ \A c \in Clients :
          clients[c].pc = "done" =>
              clients[c].response =
                  Some(IF clients[c].cmd = "Ping" THEN "Pong" ELSE "Ok")
    /\ \A i \in 1..Len(hist.accepted) : hist.accepted[i] # "Ping"
    /\ IsPrefix(hist.delivered, hist.accepted)
    /\ run.pc \in {"returned", "exited"} /\ ~panicked =>
          hist.delivered = hist.accepted

-----------------------------------------------------------------------------
(* Claims about the indices held by the state, checked under Spec *)

\* C35: for every non-empty hint list produced by assign and a machine started
\* with initial(), after any sequence of events FullOverlay.selected_hint_index
\* < len(hints), PendingActivation.hint_index < len(hints), and every
\* Exiting{Window(idx)} has idx < len(hints).
C35_IndicesInRange ==
    hints # <<>> =>
        /\ state.tag = "FullOverlay" => state.selected_hint_index < Len(hints)
        /\ state.tag = "PendingActivation" => state.hint_index < Len(hints)
        /\ (state.tag = "Exiting" /\ state.result.tag = "Window") =>
              state.result.index < Len(hints)

\* C35 witness: with two hints, a key ended the session on the last hint,
\* Exiting{Window(1)}
C35_Witness ==
    /\ Len(hints) = 2
    /\ event = Some("KeyPress")
    /\ state = Exiting(Window(1))

-----------------------------------------------------------------------------
(* Claims about the actions of a transition, checked under Spec *)

\* the action list holds ScheduleRedraw
HasRedraw(acts) == \E i \in 1..Len(acts) : acts[i] = ScheduleRedraw

\* C36: a transition's action list contains Exit if and only if the old state
\* is not Exiting and the new state is Exiting, and then the list is exactly
\* [Exit]; hence over any event sequence Exit is emitted at most once (never
\* from Exiting, which is not left), and activation_result() is Some exactly
\* from that transition onward.
C36_ExitOnEnteringExiting ==
    /\ HasExit(actions) => is_exiting(state)
    /\ \A ev \in Events : \A o \in Handle(ev) :
          ~o.panic =>
              /\ HasExit(o.actions) <=> (~is_exiting(state) /\ is_exiting(o.new_state))
              /\ HasExit(o.actions) => o.actions = <<Exit>>
              /\ is_exiting(state) => is_exiting(o.new_state)
              /\ activation_result(o.new_state) # None
                    <=> (is_exiting(state) \/ HasExit(o.actions))

\* C36 witness: with two hints, the release of Alt in FullOverlay entered
\* Exiting{Window(1)} and returned [Exit]
C36_Witness ==
    /\ Len(hints) = 2
    /\ event = Some("AltReleased")
    /\ state = Exiting(Window(1))
    /\ actions = <<Exit>>

\* what App::draw reads of a state
Displayed(s) == <<is_full_overlay(s), selected_index_of(s), input_of(s)>>

\* C37: every transition between non-Exiting states that changes what is
\* displayed, i.e. changes is_full_overlay(), selected_hint_index() or
\* input(), emits ScheduleRedraw.
C37_VisibleChangeRedraws ==
    \A ev \in Events : \A o \in Handle(ev) :
        (/\ ~o.panic
         /\ ~is_exiting(state)
         /\ ~is_exiting(o.new_state)
         /\ Displayed(o.new_state) # Displayed(state)) => HasRedraw(o.actions)

\* C37 witness: a Tick took BorderOnly to FullOverlay{0, ""} and returned
\* [ScheduleRedraw]
C37_Witness ==
    /\ event = Some("Tick")
    /\ state = FullOverlay(0, <<>>)
    /\ actions = <<ScheduleRedraw>>
    /\ ~launcher_mode

-----------------------------------------------------------------------------
(* Claims about the timed phases, checked under SpecLive *)

\* C40: starting in BorderOnly, if time advances, FrameCallback and Tick
\* events keep being delivered and no key, AltReleased or IPC event arrives,
\* the machine eventually reaches FullOverlay, whereas if fewer than two
\* FrameCallbacks are ever delivered it stays in BorderOnly forever; starting
\* in PendingActivation, if time advances and only Tick events are delivered,
\* the machine eventually reaches Exiting{Window(hint_index)}.
C40_TimedPhasesComplete ==
    /\ (feed = "timed" /\ state.tag = "BorderOnly") ~> (state.tag = "FullOverlay")
    /\ []((feed = "ticks" /\ state.tag = "BorderOnly" /\ state.frame_count < 2)
              => [](state.tag = "BorderOnly"))
    /\ \A h \in 0..(MaxWindows - 1) :
          (feed = "ticks" /\ state.tag = "PendingActivation" /\ state.hint_index = h)
              ~> (state = Exiting(Window(h)))

=============================================================================
